---- MODULE Spec2Model ----
(***************************************************************************)
(* A model of enex2md (src/enex2md/convert.py): the FileSystemSink that    *)
(* persists notes and attachments, the Converter that exports one note,    *)
(* and the EnexParser that turns note elements into ParsedNote records.    *)
(*                                                                         *)
(* Text is modelled as sequences of one-character strings, file system     *)
(* paths as sequences of such names (pathlib's parts).                     *)
(***************************************************************************)
EXTENDS Naturals, Integers, Sequences, FiniteSets, TLC

VARIABLES
    disk,             \* the file system: path -> [kind, data]
    written_files,    \* FileSystemSink.written_files
    sink_stats,       \* FileSystemSink.stats
    sink,             \* the sink object's configuration (set by __init__)
    last,             \* outcome of the last sink call (history)
    calls,            \* number of sink calls made (history, bounded)
    converter,        \* the Converter's configuration (set by __init__)
    converter_stats,  \* Converter.stats
    parser,           \* the EnexParser's configuration (set by __init__)
    parser_stats,     \* EnexParser.stats
    archive,          \* the note elements of the ENEX file being converted
    enex_files,       \* the ENEX files given to cli.app and the index of the next one
    idx,              \* index in archive of the next note element
    pc,               \* the statement of convert/export_note to run next
    cur_note,         \* export_note's note
    cur_content,      \* export_note's content
    att,              \* index in note.attachments of the next attachment
    raised,           \* the exception that ended the run, NoExc if none
    stdout,           \* the lines printed
    hist              \* what export_note did for the current note (history)

sinkVars == <<disk, written_files, sink_stats, sink, last, calls>>

convVars == <<converter, converter_stats, parser, parser_stats, archive, enex_files, idx, pc,
              cur_note, cur_content, att, raised, stdout, hist>>

vars == <<sinkVars, convVars>>

--------------------------------------------------------------------------
(* Bounds of the model *)

\* number of sink calls in one run of the sink specification
MaxCalls == 3

--------------------------------------------------------------------------
(* Text helpers *)

\* Python's None where a text is optional: no text has a long element
None == <<"None">>

\* no exception raised
NoExc == "NoExc"

Digit == <<"0", "1", "2", "3", "4", "5", "6", "7", "8", "9">>

\* str(counter) for a non-negative int
RECURSIVE DecStr(_)
DecStr(n) == IF n < 10 THEN <<Digit[n + 1]>> ELSE DecStr(n \div 10) \o <<Digit[(n % 10) + 1]>>

Last(s) == s[Len(s)]

Front(s) == SubSeq(s, 1, Len(s) - 1)

\* str.rfind of a single character: the last index of c in s, 0 when absent
RECURSIVE RFind(_, _)
RFind(s, c) == IF Len(s) = 0 THEN 0
               ELSE IF Last(s) = c THEN Len(s) ELSE RFind(Front(s), c)

--------------------------------------------------------------------------
(* pathlib.PurePath: name, suffix, stem, parent, with_name *)

PathName(path) == Last(path)

PathParent(path) == Front(path)

PathSuffix(path) ==
    LET name == PathName(path)
        i == RFind(name, ".")
    IN  IF 1 < i /\ i < Len(name) THEN SubSeq(name, i, Len(name)) ELSE <<>>

PathStem(path) ==
    LET name == PathName(path)
        i == RFind(name, ".")
    IN  IF 1 < i /\ i < Len(name) THEN SubSeq(name, 1, i - 1) ELSE name

PathWithName(path, name) == Append(PathParent(path), name)

--------------------------------------------------------------------------
(* The file system *)

\* an entry of the file system
File(data) == [kind |-> "file", data |-> data]

Dir == [kind |-> "dir", data |-> <<>>]

\* Path.exists()
Exists(dsk, path) == path \in DOMAIN dsk

\* Path.is_file()
IsFile(dsk, path) == path \in DOMAIN dsk /\ dsk[path].kind = "file"

\* the proper ancestors of a path and the path itself, below the empty path
Prefixes(path) == {SubSeq(path, 1, i) : i \in 1..Len(path)}

\* Path.mkdir(parents=True, exist_ok=True): raises when the path or one of
\* its ancestors exists and is no directory
MkdirRaises(dsk, path) == \E q \in Prefixes(path) : IsFile(dsk, q)

Mkdir(dsk, path) ==
    LET new == {q \in Prefixes(path) : ~Exists(dsk, q)}
    IN  [q \in new |-> Dir] @@ dsk

\* open(path, "w") / Path.write_bytes: raises on a directory, else the file
\* holds exactly the data written
WriteRaises(dsk, path) == Exists(dsk, path) /\ dsk[path].kind = "dir"

WriteFile(dsk, path, data) == (path :> File(data)) @@ dsk

\* os.path.relpath(path, start) on normalised paths
RECURSIVE CommonLen(_, _)
CommonLen(p, q) ==
    IF Len(p) = 0 \/ Len(q) = 0 \/ Head(p) # Head(q) THEN 0
    ELSE 1 + CommonLen(Tail(p), Tail(q))

\* the path below the common folder, without the steps up
RelPathBelow(path, start) ==
    LET rest == SubSeq(path, CommonLen(path, start) + 1, Len(path))
    IN  IF Len(rest) = 0 THEN << <<".">> >> ELSE rest

RelPath(path, start) ==
    LET c == CommonLen(path, start)
        ups == [i \in 1..(Len(start) - c) |-> <<".", ".">>]
        rest == SubSeq(path, c + 1, Len(path))
    IN  IF Len(ups \o rest) = 0 THEN << <<".">> >> ELSE ups \o rest

--------------------------------------------------------------------------
(* FileSystemSink *)

BUMP == "bump"
FAIL == "fail"
OVERWRITE == "overwrite"
WARN == "warn"

ON_EXISTING_FILE == {BUMP, FAIL, OVERWRITE, WARN}

Lower == {"a", "b", "c", "d", "e", "f", "g", "h", "i", "j", "k", "l", "m",
          "n", "o", "p", "q", "r", "s", "t", "u", "v", "w", "x", "y", "z"}

Upper == {"A", "B", "C", "D", "E", "F", "G", "H", "I", "J", "K", "L", "M",
          "N", "O", "P", "Q", "R", "S", "T", "U", "V", "W", "X", "Y", "Z"}

Digits == {Digit[i] : i \in 1..10}

\* the complement of FileSystemSink.unsafe_regex's character class
SafeChars(allow_spaces) ==
    Lower \cup Upper \cup Digits \cup {"_", "-"}
        \cup (IF allow_spaces THEN {" "} ELSE {})

\* unsafe_regex.sub(unsafe_replacer, text): every maximal run of unsafe
\* characters becomes one replacer
RECURSIVE UnsafeSub(_, _, _, _)
UnsafeSub(text, allow_spaces, replacer, inRun) ==
    IF Len(text) = 0 THEN <<>>
    ELSE IF Head(text) \in SafeChars(allow_spaces)
         THEN <<Head(text)>> \o UnsafeSub(Tail(text), allow_spaces, replacer, FALSE)
         ELSE (IF inRun THEN <<>> ELSE replacer)
                  \o UnsafeSub(Tail(text), allow_spaces, replacer, TRUE)

\* str.strip(chars)
RECURSIVE LStrip(_, _)
LStrip(s, chars) ==
    IF Len(s) > 0 /\ Head(s) \in chars THEN LStrip(Tail(s), chars) ELSE s

RECURSIVE RStrip(_, _)
RStrip(s, chars) ==
    IF Len(s) > 0 /\ Last(s) \in chars THEN RStrip(Front(s), chars) ELSE s

Strip(s, chars) == RStrip(LStrip(s, chars), chars)

Range(s) == {s[i] : i \in 1..Len(s)}

Min(a, b) == IF a < b THEN a ELSE b

\* truncation before the strip
_safe_name_truncated_first(snk, text) ==
    LET safe == UnsafeSub(text, snk.allow_spaces_in_filenames, snk.unsafe_replacer, FALSE)
    IN  Strip(SubSeq(safe, 1, Min(Len(safe), snk.max_filename_length)),
              Range(snk.unsafe_replacer))

_safe_name(snk, text) ==
    LET safe == UnsafeSub(text, snk.allow_spaces_in_filenames, snk.unsafe_replacer, FALSE)
        stripped == Strip(safe, Range(snk.unsafe_replacer))
    IN  SubSeq(stripped, 1, Min(Len(stripped), snk.max_filename_length))

\* template.format(now=..., enex=..., created=..., title=...): a template
\* is a sequence of path components, a component a sequence of pieces, a
\* piece literal text or a field name
Lit(text) == [lit |-> text]

Field(name) == [field |-> name]

FormatPiece(snk, piece, note) ==
    IF "lit" \in DOMAIN piece THEN piece.lit
    ELSE IF piece.field = "title" THEN _safe_name(snk, note.title)
    ELSE IF note.source_enex # None THEN _safe_name(snk, PathStem(note.source_enex))
    ELSE <<"e", "n", "e", "x">>

RECURSIVE FormatComponent(_, _, _)
FormatComponent(snk, pieces, note) ==
    IF Len(pieces) = 0 THEN <<>>
    ELSE FormatPiece(snk, Head(pieces), note) \o FormatComponent(snk, Tail(pieces), note)

Format(snk, template, note) ==
    [i \in 1..Len(template) |-> FormatComponent(snk, template[i], note)]

\* _bump_while, the condition given as the set of paths it is true of
RECURSIVE BumpLoop(_, _, _, _)
BumpLoop(base_path, path, counter, cond) ==
    IF path \in cond
    THEN BumpLoop(base_path,
                  PathWithName(base_path,
                               PathStem(base_path) \o <<"_">> \o DecStr(counter)
                                   \o PathSuffix(base_path)),
                  counter + 1, cond)
    ELSE path

\* _bump_while with 'if' for 'while': one bump, not checked again
_bump_once(path, cond) ==
    IF path \in cond
    THEN PathWithName(path, PathStem(path) \o <<"_", "1">> \o PathSuffix(path))
    ELSE path

_bump_while(path, cond) == BumpLoop(path, path, 1, cond)

\* the path _build_path starts from, and the path after the bump past the
\* files written in this run
TemplatePath(snk, template, note) == snk.root \o Format(snk, template, note)

\* what _build_path does once the path is bumped past the files written
\* in this run, without the FAIL and WARN branches: an existing file is
\* overwritten silently unless the policy is BUMP
HandleExistingSilent(snk, dsk, path, handle_existing) ==
    IF handle_existing /\ Exists(dsk, path) /\ IsFile(dsk, path)
       /\ snk.on_existing_file = BUMP
    THEN [exc |-> NoExc, path |-> _bump_while(path, DOMAIN dsk), warned |-> FALSE]
    ELSE [exc |-> NoExc, path |-> path, warned |-> FALSE]

\* "if handle_existing and path.exists() and path.is_file(): ..." of
\* _build_path: [exc, path, warned]
HandleExisting(snk, dsk, path, handle_existing) ==
    IF handle_existing /\ Exists(dsk, path) /\ IsFile(dsk, path)
    THEN CASE snk.on_existing_file = BUMP ->
                [exc |-> NoExc, path |-> _bump_while(path, DOMAIN dsk), warned |-> FALSE]
           [] snk.on_existing_file = FAIL ->
                [exc |-> "FileExistsError", path |-> path, warned |-> FALSE]
           [] snk.on_existing_file = OVERWRITE ->
                [exc |-> NoExc, path |-> path, warned |-> FALSE]
           [] snk.on_existing_file = WARN ->
                [exc |-> NoExc, path |-> path, warned |-> TRUE]
           [] OTHER ->
                [exc |-> "ValueError", path |-> path, warned |-> FALSE]
    ELSE [exc |-> NoExc, path |-> path, warned |-> FALSE]

\* the keyword arguments of template.format
FormatFields == {"now", "enex", "created", "title"}

\* the fields of a template
TemplateFields(template) ==
    {template[i][j].field :
        <<i, j>> \in {ij \in (1..Len(template)) \X (1..8) :
                        /\ ij[2] <= Len(template[ij[1]])
                        /\ "field" \in DOMAIN template[ij[1]][ij[2]]}}

\* _build_path: [exc, path, warned].  The arguments of template.format are
\* evaluated first: as_timezone(note.created, ...) of a note without a
\* creation time raises AttributeError (None has no astimezone), and
\* _safe_name(note.title) of a note without a title raises TypeError (re.sub
\* of None).  str.format then raises KeyError for a field that is none of
\* its keyword arguments.
_build_path(snk, wf, dsk, template, note, handle_existing) ==
    IF note.created = None
    THEN [exc |-> "AttributeError", path |-> snk.root, warned |-> FALSE]
    ELSE IF note.title = None
    THEN [exc |-> "TypeError", path |-> snk.root, warned |-> FALSE]
    ELSE IF ~(TemplateFields(template) \subseteq FormatFields)
    THEN [exc |-> "KeyError", path |-> snk.root, warned |-> FALSE]
    ELSE HandleExisting(snk, dsk, _bump_while(TemplatePath(snk, template, note), wf),
                        handle_existing)

\* The state of a sink and its file system, and the outcome of a call:
\*   wf, dsk, stats  written_files, the file system, the counters
\*   exc             the exception the call raised, or NoExc
\*   path            the path the call wrote or meant to write
\*   ret             the value returned
\*   warned          whether 'Overwriting existing file' was logged
Outcome(wf, dsk, stats, exc, path, ret, warned) ==
    [wf |-> wf, dsk |-> dsk, stats |-> stats, exc |-> exc, path |-> path,
     ret |-> ret, warned |-> warned]

\* nothing returned (no path is empty)
NoRet == <<>>

Bumped(stats, key) == [stats EXCEPT ![key] = @ + 1]

\* store_note from "path.parent.mkdir(...)" on, bp what _build_path gave
WriteNote(wf, dsk, stats, lines, bp) ==
    IF bp.exc # NoExc
    THEN Outcome(wf, dsk, stats, bp.exc, bp.path, NoRet, bp.warned)
    ELSE IF MkdirRaises(dsk, PathParent(bp.path))
    THEN Outcome(wf, dsk, stats, "FileExistsError", bp.path, NoRet, bp.warned)
    ELSE IF WriteRaises(dsk, bp.path)
    THEN Outcome(wf \cup {bp.path}, Mkdir(dsk, PathParent(bp.path)), stats,
                 "IsADirectoryError", bp.path, NoRet, bp.warned)
    ELSE Outcome(wf \cup {bp.path},
                 WriteFile(Mkdir(dsk, PathParent(bp.path)), bp.path, lines),
                 Bumped(stats, "notes written"), NoExc, bp.path, NoRet, bp.warned)

\* FileSystemSink.store_note
store_note(snk, wf, dsk, stats, note, lines) ==
    WriteNote(wf, dsk, stats, lines,
              _build_path(snk, wf, dsk, snk.note_path_template, note, TRUE))

\* the end of store_attachment: the path relative to the note's folder, np
\* what _build_path gave for the note, the attachment written
RelativeToNote(wf1, dsk1, stats1, attachment_path, np) ==
    IF np.exc # NoExc
    THEN Outcome(wf1, dsk1, stats1, np.exc, attachment_path, NoRet, np.warned)
    ELSE Outcome(wf1, dsk1, stats1, NoExc, attachment_path,
                 RelPath(attachment_path, PathParent(np.path)), np.warned)

\* store_attachment from "attachment_path.parent.mkdir(...)" on
WriteAttachment(snk, wf, dsk, stats, note, attachment, attachment_path) ==
    IF MkdirRaises(dsk, PathParent(attachment_path))
    THEN Outcome(wf, dsk, stats, "FileExistsError", attachment_path, NoRet, FALSE)
    ELSE IF WriteRaises(dsk, attachment_path)
    THEN Outcome(wf \cup {attachment_path}, Mkdir(dsk, PathParent(attachment_path)),
                 stats, "IsADirectoryError", attachment_path, NoRet, FALSE)
    ELSE RelativeToNote(
            wf \cup {attachment_path},
            WriteFile(Mkdir(dsk, PathParent(attachment_path)), attachment_path,
                      attachment.data),
            Bumped(stats, "attachments written"),
            attachment_path,
            _build_path(snk, wf \cup {attachment_path},
                        WriteFile(Mkdir(dsk, PathParent(attachment_path)),
                                  attachment_path, attachment.data),
                        snk.note_path_template, note, TRUE))

\* store_attachment after the folder is built
InFolder(snk, wf, dsk, stats, note, attachment, folder) ==
    IF folder.exc # NoExc
    THEN Outcome(wf, dsk, stats, folder.exc, folder.path, NoRet, FALSE)
    ELSE WriteAttachment(snk, wf, dsk, stats, note, attachment,
                         _bump_while(Append(folder.path, attachment.file_name), wf))

\* FileSystemSink.store_attachment
store_attachment(snk, wf, dsk, stats, note, attachment) ==
    InFolder(snk, wf, dsk, stats, note, attachment,
             _build_path(snk, wf, dsk, snk.attachments_path_template, note, FALSE))

--------------------------------------------------------------------------
(* Text of note bodies.  A text is a sequence of strings: single           *)
(* characters, and atoms that stand for one fixed piece of markup each     *)
(* (a tag such as "<div>", an attribute start such as hash=").             *)

\* text[i:i+len(pat)] == pat
MatchAt(text, i, pat) ==
    /\ i + Len(pat) - 1 <= Len(text)
    /\ SubSeq(text, i, i + Len(pat) - 1) = pat

\* str.replace(old, new): every non-overlapping occurrence, left to right
RECURSIVE ReplaceFrom(_, _, _, _)
ReplaceFrom(text, i, old, new) ==
    IF i > Len(text) THEN <<>>
    ELSE IF MatchAt(text, i, old)
         THEN new \o ReplaceFrom(text, i + Len(old), old, new)
         ELSE <<text[i]>> \o ReplaceFrom(text, i + 1, old, new)

Replace(text, old, new) == ReplaceFrom(text, 1, old, new)

\* the least index j >= i with text[j] in the set, Len(text) + 1 when none
RECURSIVE IndexFrom(_, _, _)
IndexFrom(text, i, set) ==
    IF i > Len(text) THEN Len(text) + 1
    ELSE IF text[i] \in set THEN i ELSE IndexFrom(text, i + 1, set)

\* the least index j >= i with text[j] not in the set, Len(text) + 1 when none
RECURSIVE SkipFrom(_, _, _)
SkipFrom(text, i, set) ==
    IF i > Len(text) THEN Len(text) + 1
    ELSE IF text[i] \notin set THEN i ELSE SkipFrom(text, i + 1, set)

\* regex \s
Whitespace == {" ", "\t", "\n", "\r"}

HexDigits == Digits \cup {"a", "b", "c", "d", "e", "f"} \cup {"A", "B", "C", "D", "E", "F"}

--------------------------------------------------------------------------
(* Converter._handle_attachments *)

EnMediaOpen == "<en-media "

EnMediaClose == "</en-media"

HashAttr == "hash=\""

Quote == "\""

\* the atoms that hold a '>' (the last character of each)
ClosingAtoms == {"/>", ">"}

\* "![](enex2md-attachment:", an atom
PlaceholderOpen == "![](enex2md-attachment:"

\* f"![](enex2md-attachment:{hash})"
Placeholder(hash) == <<PlaceholderOpen>> \o hash \o <<")">>

\* re.search('hash="([0-9a-fA-F]+)"', attrs): group 1 of the first match,
\* <<>> when there is none
RECURSIVE HashSearch(_, _)
HashSearch(attrs, i) ==
    IF i > Len(attrs) THEN <<>>
    ELSE LET e == SkipFrom(attrs, i + 1, HexDigits)
         IN  IF attrs[i] = HashAttr /\ e > i + 1 /\ e <= Len(attrs) /\ attrs[e] = Quote
             THEN SubSeq(attrs, i + 1, e - 1)
             ELSE HashSearch(attrs, i + 1)

\* the end of a match of (/>|>\s*</en-media.*?>) whose '>' is at index j,
\* 0 when neither alternative matches there
EnMediaEnd(text, j) ==
    LET k == SkipFrom(text, j + 1, Whitespace)
        e == IndexFrom(text, k + 1, ClosingAtoms \cup {"\n"})
    IN  IF k <= Len(text) /\ text[k] = EnMediaClose /\ e <= Len(text) /\ text[e] = ">"
        THEN e
        ELSE IF text[j] = "/>" THEN j ELSE 0

\* replace_attachment(match)
replace_attachment(matched, attrs) ==
    LET h == HashSearch(attrs, 1)
    IN  IF h # <<>> THEN <<"<div>">> \o Placeholder(h) \o <<"</div>">>
        ELSE matched

\* re.sub(r"<en-media ([^>]*)(/>|>\s*</en-media.*?>)", replace_attachment, text)
RECURSIVE EnMediaSub(_, _)
EnMediaSub(text, i) ==
    IF i > Len(text) THEN <<>>
    ELSE LET j == IndexFrom(text, i + 1, ClosingAtoms)
             e == IF j <= Len(text) THEN EnMediaEnd(text, j) ELSE 0
         IN  IF text[i] = EnMediaOpen /\ e > 0
             THEN replace_attachment(SubSeq(text, i, e), SubSeq(text, i + 1, j - 1))
                      \o EnMediaSub(text, e + 1)
             ELSE <<text[i]>> \o EnMediaSub(text, i + 1)

_handle_attachments(text) == EnMediaSub(text, 1)

--------------------------------------------------------------------------
(* Converter._handle_lists, _handle_tasks *)

Br == "<br />"

_handle_lists(text) ==
    Replace(Replace(text, <<"<ul>">>, <<Br, "<ul>">>), <<"<ol>">>, <<Br, "<ol>">>)

TodoChecked == "<en-todo checked=\"true\"/>"

TodoUnchecked == "<en-todo checked=\"false\"/>"

TodoCheckedSpace == "<en-todo checked=\"true\" />"

TodoUncheckedSpace == "<en-todo checked=\"false\" />"

CheckedBox == <<"[", "x", "]", " ">>

UncheckedBox == <<"[", " ", "]", " ">>

_handle_tasks(text) ==
    LET t1 == Replace(text, <<TodoChecked>>, <<TodoChecked>> \o CheckedBox)
        t2 == Replace(t1, <<TodoUnchecked>>, <<TodoUnchecked>> \o UncheckedBox)
        t3 == Replace(t2, <<TodoCheckedSpace>>, <<TodoChecked>> \o CheckedBox)
    IN  Replace(t3, <<TodoUncheckedSpace>>, <<TodoUnchecked>> \o UncheckedBox)

--------------------------------------------------------------------------
(* Converter._handle_strongs_emphases *)

\* the opening tags of spans, each an atom, with what its style attribute
\* declares; "<span>" carries no style attribute
SpanBoldItalic == "<span style=\"font-style: italic; font-weight: bold;\">"

SpanBold == "<span style=\"font-weight: bold;\">"

SpanItalic == "<span style=\"font-style: italic;\">"

SpanOther == "<span style=\"color: red;\">"

SpanPlain == "<span>"

SpanClose == "</span>"

SpanOpens == {SpanBoldItalic, SpanBold, SpanItalic, SpanOther, SpanPlain}

\* one part the split on (<span.*?</span>) gives: from an opening tag to
\* the first closing tag
SpanPart(part) ==
    LET open == part[1]
        content == SubSeq(part, 2, Len(part) - 1)
    IN  IF open = SpanPlain THEN part
        ELSE IF content = <<Br>> THEN <<Br>>
        ELSE IF open = SpanBoldItalic
             THEN <<SpanPlain, "*", "*", "*">> \o content \o <<"*", "*", "*", SpanClose>>
        ELSE IF open = SpanBold
             THEN <<SpanPlain, "*", "*">> \o content \o <<"*", "*", SpanClose>>
        ELSE IF open = SpanItalic
             THEN <<SpanPlain, "*">> \o content \o <<"*", SpanClose>>
        ELSE part

RECURSIVE SpanSub(_, _)
SpanSub(text, i) ==
    IF i > Len(text) THEN <<>>
    ELSE LET e == IndexFrom(text, i + 1, {SpanClose, "\n"})
         IN  IF text[i] \in SpanOpens /\ e <= Len(text) /\ text[e] = SpanClose
             THEN SpanPart(SubSeq(text, i, e)) \o SpanSub(text, e + 1)
             ELSE <<text[i]>> \o SpanSub(text, i + 1)

_handle_strongs_emphases(text) == SpanSub(text, 1)

--------------------------------------------------------------------------
(* Converter._handle_tables *)

TableOpen == "<table>"

TableClose == "</table>"

DivOpen == "<div>"

DivClose == "</div>"

\* part.replace("<div>", "").replace("</div>", "")
StripDivs(part) == Replace(Replace(part, <<DivOpen>>, <<>>), <<DivClose>>, <<>>)

\* the parts of re.split(r"(<table.*?</table>)", text), from index i on,
\* where the part being collected started at index from
RECURSIVE TableParts(_, _, _)
TableParts(text, from, i) ==
    IF i > Len(text) THEN <<SubSeq(text, from, Len(text))>>
    ELSE LET e == IndexFrom(text, i + 1, {TableClose, "\n"})
         IN  IF text[i] = TableOpen /\ e <= Len(text) /\ text[e] = TableClose
             THEN <<SubSeq(text, from, i - 1), SubSeq(text, i, e)>>
                      \o TableParts(text, e + 1, e + 1)
             ELSE TableParts(text, from, i + 1)

RECURSIVE JoinParts(_)
JoinParts(parts) ==
    IF Len(parts) = 0 THEN <<>> ELSE Head(parts) \o JoinParts(Tail(parts))

_handle_tables(text) ==
    LET parts == TableParts(text, 1, 1)
    IN  JoinParts([k \in 1..Len(parts) |->
                      IF Len(parts[k]) > 0 /\ parts[k][1] = TableOpen
                      THEN StripDivs(parts[k]) ELSE parts[k]])

--------------------------------------------------------------------------
(* Converter._handle_codeblocks *)

CodeblockOpen == "<div style=\"-en-codeblock:true;\">"

PreOpen == "<pre>"

PreClose == "</pre>"

CodeBegin == "code-begin-code-begin-code-begin"

CodeEnd == "code-end-code-end-code-end"

\* the characters U+201C and U+201D, each an atom
LeftCurlyQuote == "U+201C"

RightCurlyQuote == "U+201D"

DivOpens == {DivOpen, CodeblockOpen}

\* the atoms that are tags (an <en-media ...> element is several atoms)
TagAtoms ==
    DivOpens \cup SpanOpens
        \cup {DivClose, SpanClose, Br, TableOpen, TableClose, PreOpen, PreClose,
              TodoChecked, TodoUnchecked, TodoCheckedSpace, TodoUncheckedSpace,
              "<ul>", "</ul>", "<ol>", "</ol>", "<li>", "</li>"}

\* the index of the </div> closing the div opened before index i, at the
\* given depth; Len(text) + 1 when the parser closes it at the end
RECURSIVE DivEnd(_, _, _)
DivEnd(text, i, depth) ==
    IF i > Len(text) THEN Len(text) + 1
    ELSE IF text[i] \in DivOpens THEN DivEnd(text, i + 1, depth + 1)
    ELSE IF text[i] = DivClose
         THEN IF depth = 0 THEN i ELSE DivEnd(text, i + 1, depth - 1)
    ELSE DivEnd(text, i + 1, depth)

\* Tag.text: the text inside, markup left out
RECURSIVE TextOf(_, _)
TextOf(text, i) ==
    IF i > Len(text) THEN <<>>
    ELSE IF text[i] = EnMediaOpen
         THEN TextOf(text, IndexFrom(text, i + 1, ClosingAtoms) + 1)
    ELSE IF text[i] \in TagAtoms \cup ClosingAtoms \cup {EnMediaClose}
         THEN TextOf(text, i + 1)
    ELSE <<text[i]>> \o TextOf(text, i + 1)

\* for nugget in block.select("div"): code += f"{nugget.text}\n"
RECURSIVE Nuggets(_, _)
Nuggets(inner, i) ==
    IF i > Len(inner) THEN <<>>
    ELSE IF inner[i] \in DivOpens
         THEN TextOf(SubSeq(inner, i + 1, DivEnd(inner, i + 1, 0) - 1), 1) \o <<"\n">>
                  \o Nuggets(inner, i + 1)
    ELSE Nuggets(inner, i + 1)

\* the <pre> element that replaces one code block
PreBlock(inner) ==
    LET code == <<CodeBegin, "\n">> \o Nuggets(inner, 1) \o <<CodeEnd>>
        fixed == Replace(Replace(code, <<LeftCurlyQuote>>, <<Quote>>),
                         <<RightCurlyQuote>>, <<Quote>>)
    IN  <<PreOpen>> \o fixed \o <<PreClose>>

\* soup.find_all(...) and replace_with, then str(soup); the serialisation
\* of the markup outside code blocks is not modelled
RECURSIVE CodeblockSub(_, _)
CodeblockSub(text, i) ==
    IF i > Len(text) THEN <<>>
    ELSE IF text[i] = CodeblockOpen
         THEN LET e == DivEnd(text, i + 1, 0)
              IN  PreBlock(SubSeq(text, i + 1, e - 1)) \o CodeblockSub(text, e + 1)
    ELSE <<text[i]>> \o CodeblockSub(text, i + 1)

_handle_codeblocks(text) == CodeblockSub(text, 1)

--------------------------------------------------------------------------
(* html2text.HTML2Text().handle, as export_note configures it: the part    *)
(* that the markup of this model needs                                     *)

\* str.split(sep) for a one-element separator
RECURSIVE Split(_, _)
Split(text, sep) ==
    LET j == IndexFrom(text, 1, {sep})
    IN  IF j > Len(text) THEN <<text>>
        ELSE <<SubSeq(text, 1, j - 1)>> \o Split(SubSeq(text, j + 1, Len(text)), sep)

\* sep.join(lines)
RECURSIVE Join(_, _)
Join(lines, sep) ==
    IF Len(lines) = 0 THEN <<>>
    ELSE IF Len(lines) = 1 THEN lines[1]
    ELSE lines[1] \o <<sep>> \o Join(Tail(lines), sep)

\* a block boundary: the output continues on a new line
NewLine(out) == IF Len(out) = 0 \/ Last(out) = "\n" THEN out ELSE out \o <<"\n">>

Indent == <<" ", " ", " ", " ">>

\* a <pre> element: a blank line, then every line indented by four spaces
RenderPre(out, code) ==
    LET lines == Split(code, "\n")
    IN  NewLine(out) \o <<"\n">>
            \o Join([k \in 1..Len(lines) |-> Indent \o lines[k]], "\n") \o <<"\n", "\n">>

RECURSIVE RenderFrom(_, _, _)
RenderFrom(text, i, out) ==
    IF i > Len(text) THEN out \o <<"\n", "\n">>
    ELSE IF text[i] = PreOpen
         THEN LET e == IndexFrom(text, i + 1, {PreClose})
              IN  RenderFrom(text, e + 1, RenderPre(out, SubSeq(text, i + 1, e - 1)))
    ELSE IF text[i] \in DivOpens \cup {DivClose}
         THEN RenderFrom(text, i + 1, NewLine(out))
    ELSE IF text[i] = Br
         THEN RenderFrom(text, i + 1, out \o <<" ", " ", "\n">>)
    ELSE IF text[i] = EnMediaOpen
         THEN RenderFrom(text, IndexFrom(text, i + 1, ClosingAtoms) + 1, out)
    ELSE IF text[i] \in TagAtoms \cup ClosingAtoms \cup {EnMediaClose}
         THEN RenderFrom(text, i + 1, out)
    ELSE RenderFrom(text, i + 1, out \o <<text[i]>>)

\* html2text on markup with lists.  The state of HTML2Text: the text put
\* out, p_p (newlines owed), space (a blank owed), start (nothing put out
\* since the start or the last list marker), lastWasNL, the stack of open
\* lists (name, num) and lastWasList
LiNoBullet == "<li style=\"list-style: none\">"

ListOpens == {"<ul>", "<ol>"}

ListCloses == {"</ul>", "</ol>"}

LiOpens == {"<li>", LiNoBullet}

LiClose == "</li>"

Html2TextTags == TagAtoms \cup {LiNoBullet}

Html2TextInit ==
    [out |-> <<>>, p_p |-> 0, space |-> FALSE, start |-> TRUE, lastWasNL |-> FALSE,
     list |-> <<>>, lastWasList |-> FALSE]

\* outtextf
OutText(st, s) ==
    [st EXCEPT !.out = @ \o s,
               !.lastWasNL = IF Len(s) > 0 THEN Last(s) = "\n" ELSE @]

\* o(): the owed blank, then the data
OSpace(st, data) ==
    OutText([(IF st.space /\ ~st.lastWasNL THEN OutText(st, <<" ">>) ELSE st)
                EXCEPT !.space = FALSE, !.p_p = 0],
            data)

\* o(): the owed newlines (single_line_break: one for a paragraph)
OParagraph(st, data) ==
    IF st.p_p > 0
    THEN OSpace([OutText(st, [k \in 1..st.p_p |-> "\n"]) EXCEPT !.space = FALSE], data)
    ELSE OSpace(st, data)

\* o(): force="end"
OEnd(st, data, force) ==
    IF force
    THEN OParagraph(OutText([st EXCEPT !.p_p = 0, !.space = FALSE], <<"\n">>), data)
    ELSE OParagraph(st, data)

\* HTML2Text.o(data, force=...)
O(st, data, force) ==
    IF data = <<>> /\ ~force THEN st
    ELSE OEnd(IF st.start
              THEN [st EXCEPT !.space = FALSE, !.p_p = 0, !.start = FALSE]
              ELSE st,
              data, force)

\* re.sub(r"\s+", " ", data)
RECURSIVE CollapseSpace(_, _)
CollapseSpace(data, i) ==
    IF i > Len(data) THEN <<>>
    ELSE IF data[i] \in Whitespace
         THEN <<" ">> \o CollapseSpace(data, SkipFrom(data, i, Whitespace))
    ELSE <<data[i]>> \o CollapseSpace(data, i + 1)

\* o(data, puredata=True) of collapsed data
OPure(st, data) ==
    IF Len(data) > 0 /\ data[1] = " "
    THEN O([st EXCEPT !.space = TRUE], Tail(data), FALSE)
    ELSE O(st, data, FALSE)

\* HTML2Text.handle_data
handle_data(st, data) == OPure(st, CollapseSpace(data, 1))

\* HTML2Text.p
P(st) == [st EXCEPT !.p_p = 1]

\* HTML2Text.pbr
Pbr(st) == IF st.p_p = 0 THEN [st EXCEPT !.p_p = 1] ELSE st

\* two spaces per open list, three for a <ul> in an <ol>
RECURSIVE IndentLists(_, _)
IndentLists(st, k) ==
    IF k > Len(st.list) THEN st
    ELSE IndentLists(
            O(st, IF k > 1 /\ st.list[k - 1].name = "<ol>" /\ st.list[k].name = "<ul>"
                  THEN <<" ", " ", " ">> ELSE <<" ", " ">>, FALSE),
            k + 1)

\* the marker of an item of the innermost list, "* " outside any list
ListMarker(st) ==
    IF st.list = <<>> \/ Last(st.list).name = "<ul>"
    THEN [O(st, <<"*", " ">>, FALSE) EXCEPT !.start = TRUE]
    ELSE [O([st EXCEPT !.list[Len(st.list)].num = @ + 1],
            DecStr(Last(st.list).num + 1) \o <<".", " ">>, FALSE)
            EXCEPT !.start = TRUE]

\* </ul>, </ol>
ListEnd(st) ==
    IF st.list = <<>> THEN st
    ELSE IF Len(st.list) = 1 THEN O([st EXCEPT !.list = <<>>], <<"\n">>, FALSE)
    ELSE [st EXCEPT !.list = Front(@)]

ListParagraph(st) == IF st.list = <<>> /\ ~st.lastWasList THEN P(st) ELSE st

\* HTML2Text.handle_tag
handle_tag(st, tag) ==
    IF tag \in DivOpens \cup {DivClose} THEN P([st EXCEPT !.lastWasList = FALSE])
    ELSE IF tag = Br THEN O([st EXCEPT !.lastWasList = FALSE], <<" ", " ", "\n">>, FALSE)
    ELSE IF tag \in ListOpens
    THEN [ListParagraph(st) EXCEPT !.list = Append(@, [name |-> tag, num |-> 0]),
                                   !.lastWasList = TRUE]
    ELSE IF tag \in ListCloses
    THEN [ListEnd(ListParagraph(st)) EXCEPT !.lastWasList = TRUE]
    ELSE IF tag \in LiOpens
    THEN ListMarker(IndentLists(Pbr([st EXCEPT !.lastWasList = FALSE]), 1))
    ELSE IF tag = LiClose THEN Pbr([st EXCEPT !.lastWasList = FALSE])
    ELSE [st EXCEPT !.lastWasList = FALSE]

\* HTML2Text.finish
Finish(st) == O(Pbr(st), <<>>, TRUE).out

\* HTML2Text.feed and finish: tags one at a time, the text between two tags
\* as one piece of data
RECURSIVE Feed(_, _, _)
Feed(text, i, st) ==
    IF st.p_p < 0 THEN st.out   \* never: p_p counts newlines
    ELSE IF i > Len(text) THEN Finish(st)
    ELSE IF text[i] \in Html2TextTags THEN Feed(text, i + 1, handle_tag(st, text[i]))
    ELSE Feed(text, IndexFrom(text, i, Html2TextTags),
              handle_data(st, SubSeq(text, i, IndexFrom(text, i, Html2TextTags) - 1)))

HasLists(text) ==
    \E i \in 1..Len(text) : text[i] \in ListOpens \cup ListCloses \cup LiOpens \cup {LiClose}

text_maker_handle(text) ==
    IF HasLists(text) THEN Feed(text, 1, Html2TextInit) ELSE RenderFrom(text, 1, <<>>)

--------------------------------------------------------------------------
(* Converter._post_processor_code_newlines *)

\* the line of three backquotes that opens or closes a fenced code block,
\* an atom
Fence == "[three backquotes]"

\* the first non-blank character of the line is '*'
IsBullet(line) ==
    LET l == LStrip(line, Whitespace) IN Len(l) > 0 /\ l[1] = "*"

\* four spaces taken only from a line of exactly four leading spaces
PostLineExactlyFour(raw) ==
    LET stripped == RStrip(raw, Whitespace)
        line1 == IF stripped = <<"*", "*">> \/ stripped = <<" ", "*", "*">>
                 THEN <<>> ELSE stripped
        line2 == IF MatchAt(line1, 1, Indent) /\ ~MatchAt(line1, 2, Indent)
                    /\ ~IsBullet(line1)
                 THEN SubSeq(line1, 5, Len(line1)) ELSE line1
    IN  IF line2 = <<CodeBegin>> \/ line2 = <<CodeEnd>> THEN <<Fence>> ELSE line2

PostLine(raw) ==
    LET stripped == RStrip(raw, Whitespace)
        line1 == IF stripped = <<"*", "*">> \/ stripped = <<" ", "*", "*">>
                 THEN <<>> ELSE stripped
        line2 == IF MatchAt(line1, 1, Indent) /\ ~IsBullet(line1)
                 THEN SubSeq(line1, 5, Len(line1)) ELSE line1
    IN  IF line2 = <<CodeBegin>> \/ line2 = <<CodeEnd>> THEN <<Fence>> ELSE line2

\* a run of three or more newlines made one newline shorter
RECURSIVE CollapseNewlinesByOne(_, _)
CollapseNewlinesByOne(text, i) ==
    IF i > Len(text) THEN <<>>
    ELSE IF text[i] = "\n"
         THEN LET e == SkipFrom(text, i, {"\n"})
              IN  (IF e - i >= 3 THEN SubSeq(text, i, e - 2) ELSE SubSeq(text, i, e - 1))
                      \o CollapseNewlinesByOne(text, e)
    ELSE <<text[i]>> \o CollapseNewlinesByOne(text, i + 1)

\* re.sub(r"\n{3,}", "\n\n", text)
RECURSIVE CollapseNewlines(_, _)
CollapseNewlines(text, i) ==
    IF i > Len(text) THEN <<>>
    ELSE IF text[i] = "\n"
         THEN LET e == SkipFrom(text, i, {"\n"})
              IN  (IF e - i >= 3 THEN <<"\n", "\n">> ELSE SubSeq(text, i, e - 1))
                      \o CollapseNewlines(text, e)
    ELSE <<text[i]>> \o CollapseNewlines(text, i + 1)

\* the joined lines as they are
NeitherCollapsedNorStripped(text) == text

\* text = re.sub(r"\n{3,}", "\n\n", text).strip()
CollapseAndStrip(text) == Strip(CollapseNewlines(text, 1), Whitespace)

_post_processor_code_newlines(text) ==
    LET lines == Split(text, "\n")
    IN  CollapseAndStrip(Join([k \in 1..Len(lines) |-> PostLine(lines[k])], "\n"))

--------------------------------------------------------------------------
(* EnexParser.  An XML element is a record of its children: a child that   *)
(* holds text is Missing (no such child), None (the child is empty, its    *)
(* text is None) or the text.                                              *)

Missing == <<"Missing">>

\* EnexParser._get_value without a convertor
_get_value(child) == IF child = Missing THEN None ELSE child

\* the digits of a timestamp as written in ENEX and as isoformat() prints
\* them, for the dates and times of the model
EnexDates == <<"20230709", "20230712">>

IsoDates == <<"2023-07-09", "2023-07-12">>

EnexTimes == <<"184204", "184322">>

IsoTimes == <<"18:42:04", "18:43:22">>

IndexOf(seq, x) == CHOOSE i \in 1..Len(seq) : seq[i] = x

\* datetime.strptime(s, "%Y%m%dT%H%M%SZ") succeeds
IsTimestamp(s) ==
    /\ Len(s) = 4
    /\ s[1] \in Range(EnexDates) /\ s[2] = "T" /\ s[3] \in Range(EnexTimes) /\ s[4] = "Z"

\* EnexParser._datetime_parse: a datetime is <<date, time, utc offset>>
_datetime_parse(s) ==
    <<IsoDates[IndexOf(EnexDates, s[1])], IsoTimes[IndexOf(EnexTimes, s[3])], "+00:00">>

\* _get_value(element, path, convertor=self._datetime_parse): [exc, value]
ParseTimestamp(child) ==
    IF child = Missing THEN [exc |-> NoExc, value |-> None]
    ELSE IF child = None THEN [exc |-> "TypeError", value |-> None]
    ELSE IF ~IsTimestamp(child) THEN [exc |-> "ValueError", value |-> None]
    ELSE [exc |-> NoExc, value |-> _datetime_parse(child)]

\* base64: the groups of four characters of the model and the bytes each
\* decodes to
B64Groups == <<"YQ==", "Yg==">>

B64Bytes == <<"a", "b">>

\* base64.b64decode(re.sub(r"\s+", "", text))
RECURSIVE b64decode(_)
b64decode(text) ==
    IF Len(text) = 0 THEN <<>>
    ELSE IF Head(text) \in Whitespace THEN b64decode(Tail(text))
    ELSE <<B64Bytes[IndexOf(B64Groups, Head(text))]>> \o b64decode(Tail(text))

\* hashlib.md5(data).hexdigest(): lower-case hexadecimal digits, equal data
\* giving equal digests; shortened to two digits
Md5Hex(data) ==
    IF data = <<"a">> THEN <<"a", "1">>
    ELSE IF data = <<"b">> THEN <<"b", "2">>
    ELSE <<"d", "4">>

\* regex \w
WordChars == Lower \cup Upper \cup Digits \cup {"_"}

\* re.match(r"^\w+/(\w+)", mime_type): group 1, <<>> when there is no match
MimeSubtype(mime) ==
    LET slash == SkipFrom(mime, 1, WordChars)
        end == SkipFrom(mime, slash + 1, WordChars)
    IN  IF slash > 1 /\ slash <= Len(mime) /\ mime[slash] = "/" /\ end > slash + 1
        THEN SubSeq(mime, slash + 1, end - 1)
        ELSE <<>>

Untitled == <<"u", "n", "t", "i", "t", "l", "e", "d">>

\* every text taken for true
AlwaysTrue(text) == TRUE

\* a text is false when it is None or empty
Truthy(text) == text # None /\ text # <<>>

\* int(text) of the digits of a text
RECURSIVE DecVal(_)
DecVal(text) ==
    IF Len(text) = 0 THEN 0
    ELSE 10 * DecVal(Front(text)) + (CHOOSE d \in 0..9 : Digit[d + 1] = Last(text))

\* _get_value(element, path, convertor=int): [exc, value]
ParseInt(child) ==
    IF child = Missing THEN [exc |-> NoExc, value |-> None]
    ELSE IF child = None THEN [exc |-> "TypeError", value |-> None]
    ELSE LET digits == Strip(child, Whitespace)
         IN  IF digits = <<>> \/ \E i \in 1..Len(digits) : digits[i] \notin Digits
             THEN [exc |-> "ValueError", value |-> None]
             ELSE [exc |-> NoExc, value |-> <<DecVal(digits)>>]

\* EnexParser.parse_attachment_element: [exc, value, counted], counted the
\* increment of stats["attachments parsed"]
parse_attachment_element(element) ==
    IF element.data = Missing \/ ~Truthy(element.data)
    THEN [exc |-> "AssertionError", counted |-> 0]
    ELSE LET data == b64decode(element.data)
             given == _get_value(element.file_name)
             mime_type == _get_value(element.mime)
             subtype == IF Truthy(mime_type) THEN MimeSubtype(mime_type) ELSE <<>>
             file_name == IF Truthy(given) THEN given
                          ELSE IF subtype # <<>> THEN Untitled \o <<".">> \o subtype
                          ELSE Untitled
             width == ParseInt(element.width)
             height == ParseInt(element.height)
         IN  IF width.exc # NoExc THEN [exc |-> width.exc, counted |-> 1]
             ELSE IF height.exc # NoExc THEN [exc |-> height.exc, counted |-> 1]
             ELSE [exc |-> NoExc, counted |-> 1,
                   value |-> [file_name |-> file_name, data |-> <<data>>,
                              md5_hash |-> Md5Hex(data), mime_type |-> mime_type,
                              width |-> width.value, height |-> height.value]]

\* [self.parse_attachment_element(e) for e in element.iterfind("resource")]:
\* the first resource that raises ends the comprehension
RECURSIVE ParseResources(_)
ParseResources(resources) ==
    IF Len(resources) = 0 THEN [exc |-> NoExc, value |-> <<>>, parsed |-> 0]
    ELSE LET first == parse_attachment_element(Head(resources))
             rest == ParseResources(Tail(resources))
         IN  IF first.exc # NoExc
             THEN [exc |-> first.exc, value |-> <<>>, parsed |-> first.counted]
             ELSE [exc |-> rest.exc, value |-> <<first.value>> \o rest.value,
                   parsed |-> 1 + rest.parsed]

\* attachments is None (a value that is no list of attachments)
NoAttachments == <<[none |-> TRUE]>>

\* EnexParser.__init__
EnexParser(handle_attachments) == [handle_attachments |-> handle_attachments]

NoParserStats == [k \in {"notes parsed", "attachments parsed"} |-> 0]

RECURSIVE TruthyOnly(_)
TruthyOnly(texts) ==
    IF Len(texts) = 0 THEN <<>>
    ELSE (IF Truthy(Head(texts)) THEN <<Head(texts)>> ELSE <<>>) \o TruthyOnly(Tail(texts))

\* EnexParser.parse_note_element, given what parsing the resources and the
\* two timestamps gave: [exc, value, parsed, counted], parsed
\* the increment of stats["attachments parsed"] and counted that of
\* stats["notes parsed"] when the call returns or raises
ParsedNote(element, source_enex, atts, created, updated) ==
    IF atts.exc # NoExc
    THEN [exc |-> atts.exc, parsed |-> atts.parsed, counted |-> 0]
    ELSE IF created.exc # NoExc
    THEN [exc |-> created.exc, parsed |-> atts.parsed, counted |-> 1]
    ELSE IF updated.exc # NoExc
    THEN [exc |-> updated.exc, parsed |-> atts.parsed, counted |-> 1]
    ELSE [exc |-> NoExc, parsed |-> atts.parsed, counted |-> 1,
          value |-> [title |-> _get_value(element.title),
                     content |-> _get_value(element.content),
                     tags |-> TruthyOnly(element.tags),
                     created |-> created.value,
                     updated |-> updated.value,
                     author |-> _get_value(element.author),
                     source_url |-> _get_value(element.source_url),
                     attachments |-> atts.value,
                     source_enex |-> source_enex]]

parse_note_element(handle_attachments, element, source_enex) ==
    ParsedNote(element, source_enex,
               IF handle_attachments THEN ParseResources(element.resources)
               ELSE [exc |-> NoExc, value |-> NoAttachments, parsed |-> 0],
               ParseTimestamp(element.created), ParseTimestamp(element.updated))

--------------------------------------------------------------------------
(* Converter._format_header *)

TIMEZONE_UTC == "utc"

TIMEZONE_LOCAL == "local"

\* the offset of the local zone of the machine, as isoformat() prints it
LocalOffset == "+02:00"

\* the times of day of the model in the local zone
LocalTimes == <<"20:42:04", "20:43:22">>

\* as_timezone: [exc, value]
as_timezone(d, timezone) ==
    IF timezone = TIMEZONE_LOCAL
    THEN [exc |-> NoExc, value |-> <<d[1], LocalTimes[IndexOf(IsoTimes, d[2])], LocalOffset>>]
    ELSE IF timezone = TIMEZONE_UTC
    THEN [exc |-> NoExc, value |-> d]
    ELSE [exc |-> "ValueError", value |-> d]

\* datetime.isoformat()
isoformat(d) == <<d[1], "T", d[2], d[3]>>

\* str(value) of a text or None
StrOf(value) == IF value = None THEN <<"N", "o", "n", "e">> ELSE value

\* ", ".join(texts)
RECURSIVE JoinComma(_)
JoinComma(texts) ==
    IF Len(texts) = 0 THEN <<>>
    ELSE IF Len(texts) = 1 THEN texts[1]
    ELSE texts[1] \o <<",", " ">> \o JoinComma(Tail(texts))

LowerCase == <<"a", "b", "c", "d", "e", "f", "g", "h", "i", "j", "k", "l", "m",
               "n", "o", "p", "q", "r", "s", "t", "u", "v", "w", "x", "y", "z">>

UpperCase == <<"A", "B", "C", "D", "E", "F", "G", "H", "I", "J", "K", "L", "M",
               "N", "O", "P", "Q", "R", "S", "T", "U", "V", "W", "X", "Y", "Z">>

\* str.title(): a letter that follows a letter is lower-cased, any other
\* letter is upper-cased
TitleCase(text) ==
    [i \in 1..Len(text) |->
        LET c == text[i]
            follows == i > 1 /\ (text[i - 1] \in Range(LowerCase) \cup Range(UpperCase))
        IN  IF c \in Range(LowerCase) /\ ~follows THEN UpperCase[IndexOf(LowerCase, c)]
            ELSE IF c \in Range(UpperCase) /\ follows THEN LowerCase[IndexOf(UpperCase, c)]
            ELSE c]

KeyTitle == <<"t", "i", "t", "l", "e">>

KeyAuthor == <<"a", "u", "t", "h", "o", "r">>

KeySourceUrl == <<"s", "o", "u", "r", "c", "e", "_", "u", "r", "l">>

KeyCreated == <<"c", "r", "e", "a", "t", "e", "d">>

KeyUpdated == <<"u", "p", "d", "a", "t", "e", "d">>

KeyTags == <<"t", "a", "g", "s">>

\* the metadata dict, in insertion order: a sequence of <<key, value>>
Metadata(conv, note) ==
    << <<KeyTitle, note.title>> >>
    \o (IF Truthy(note.author) THEN << <<KeyAuthor, note.author>> >> ELSE <<>>)
    \o (IF Truthy(note.source_url) THEN << <<KeySourceUrl, note.source_url>> >> ELSE <<>>)
    \o (IF note.created # None
        THEN << <<KeyCreated, isoformat(as_timezone(note.created, conv.timezone).value)>> >>
        ELSE <<>>)
    \o (IF note.updated # None
        THEN << <<KeyUpdated, isoformat(as_timezone(note.updated, conv.timezone).value)>> >>
        ELSE <<>>)
    \o (IF note.tags # <<>> THEN << <<KeyTags, JoinComma(note.tags)>> >> ELSE <<>>)

Dashes == <<"-", "-", "-">>

NoteMetadataHeading ==
    <<"#", "#", " ", "N", "o", "t", "e", " ", "m", "e", "t", "a", "d", "a", "t", "a">>

NoteContentHeading ==
    <<"#", "#", " ", "N", "o", "t", "e", " ", "C", "o", "n", "t", "e", "n", "t">>

\* Converter._format_header: the lines it yields
_format_header(conv, note) ==
    LET metadata == Metadata(conv, note)
        entries == [i \in 1..Len(metadata) |->
                        metadata[i][1] \o <<":", " ">> \o StrOf(metadata[i][2])]
        bullets == [i \in 1..Len(metadata) |->
                        <<"-", " ">> \o TitleCase(metadata[i][1]) \o <<":", " ">>
                            \o StrOf(metadata[i][2])]
    IN  (IF conv.front_matter THEN <<Dashes>> \o entries \o <<Dashes, <<>>, <<>> >> ELSE <<>>)
        \o << <<"#", " ">> \o StrOf(note.title), <<>> >>
        \o (IF ~conv.front_matter
            THEN <<NoteMetadataHeading, <<>> >> \o bullets \o << <<>>, NoteContentHeading, <<>> >>
            ELSE <<>>)

\* Converter.__init__
Converter(front_matter, timezone) ==
    [front_matter |-> front_matter, timezone |-> timezone]

NoConverterStats == [k \in {"notes exported"} |-> 0]

--------------------------------------------------------------------------
(* FileSystemSink.__init__ *)

DEFAULT_OUTPUT_ROOT == << <<"o", "u", "t", "p", "u", "t">> >>

\* "{now:%Y%m%d_%H%M%S}/{enex}/{title}.md"
DEFAULT_NOTE_PATH_TEMPLATE ==
    << <<Lit(<<"n", "o", "w">>)>>, <<Field("enex")>>,
       <<Field("title"), Lit(<<".", "m", "d">>)>> >>

\* "{now:%Y%m%d_%H%M%S}/{enex}/{title}_attachments/"
DEFAULT_ATTACHMENTS_PATH_TEMPLATE ==
    << <<Lit(<<"n", "o", "w">>)>>, <<Field("enex")>>,
       <<Field("title"), Lit(<<"_", "a", "t", "t", "a", "c", "h", "m", "e", "n", "t", "s">>)>> >>

\* no template given
NoTemplate == <<>>

EndsWithMd(text) ==
    Len(text) >= 3 /\ SubSeq(text, Len(text) - 2, Len(text)) = <<".", "m", "d">>

\* re.sub(r"(?:\.md)?$", "_attachments", note_path_template, count=1)
GuessAttachmentsTemplate(template) ==
    LET comp == Last(template)
        piece == Last(comp)
        isMd == "lit" \in DOMAIN piece /\ EndsWithMd(piece.lit)
        kept == IF isMd
                THEN Append(Front(comp), Lit(SubSeq(piece.lit, 1, Len(piece.lit) - 3)))
                ELSE comp
    IN  Append(Front(template),
               Append(kept, Lit(<<"_", "a", "t", "t", "a", "c", "h", "m", "e", "n", "t", "s">>)))

max_filename_length == 128

FileSystemSink(root, note_path_template, attachments_path_template, allow_spaces_in_filenames, unsafe_replacer, on_existing) ==
    [handle_attachments |-> TRUE,
     root |-> root,
     note_path_template |->
        IF note_path_template = NoTemplate THEN DEFAULT_NOTE_PATH_TEMPLATE
        ELSE note_path_template,
     attachments_path_template |->
        IF note_path_template = NoTemplate THEN DEFAULT_ATTACHMENTS_PATH_TEMPLATE
        ELSE IF attachments_path_template = NoTemplate
             THEN GuessAttachmentsTemplate(note_path_template)
             ELSE attachments_path_template,
     allow_spaces_in_filenames |-> allow_spaces_in_filenames,
     unsafe_replacer |-> unsafe_replacer,
     max_filename_length |-> max_filename_length,
     on_existing_file |-> on_existing]

\* collections.Counter(): a missing key counts 0
NoSinkStats == [k \in {"notes written", "attachments written"} |-> 0]

--------------------------------------------------------------------------
(* The sink on its own: any sequence of store_note and store_attachment    *)
(* calls on one FileSystemSink, over any files already on disk             *)

Root == << <<"r">> >>

\* "{title}.md"
TitleMd == << <<Field("title"), Lit(<<".", "m", "d">>)>> >>

\* "attachments"
Attachments == << <<Lit(<<"a", "t", "t">>)>> >>

FPng == <<"f", ".", "p", "n", "g">>

\* the content of a file from before the run: one line
Old == << <<"o", "l", "d">> >>

\* the files and folders that may be on disk before the run
PreDisks ==
    {d \in [{Root \o << <<"a", ".", "m", "d">> >>,
             Root \o << <<"a", "_", "1", ".", "m", "d">> >>,
             Root \o << <<"a", "t", "t">>, FPng >>} -> {"none", "file", "dir"}] :
        \A p \in DOMAIN d : d[p] = "dir" => PathName(p) = <<"a", ".", "m", "d">>}

PreDisk(d) ==
    LET there == {p \in DOMAIN d : d[p] # "none"}
        folders == UNION {Prefixes(PathParent(p)) : p \in there}
    IN  [p \in there |-> IF d[p] = "file" THEN File(Old) ELSE Dir]
            @@ [p \in folders |-> Dir]

SinkNote(title) ==
    [title |-> title, source_enex |-> None,
     created |-> <<"2023-07-09", "18:42:04", "+00:00">>]

SinkNotes == {SinkNote(<<"a", "!">>), SinkNote(<<"a", "_", "1">>)}

SinkAttachments == {[file_name |-> FPng, data |-> << <<"p", "n", "g">> >>]}

\* convert is called on one ENEX file, not from cli.app
NoEnexFiles == [paths |-> <<>>, next |-> 1]

NoCall == [op |-> "none"]

\* what the last call was given, found and did
Call(op, note, out) ==
    [op |-> op, note |-> note, exc |-> out.exc, path |-> out.path,
     ret |-> out.ret, warned |-> out.warned,
     disk_before |-> disk, written_before |-> written_files]

NoNote == [title |-> None]

\* steps: the calls made, in order; prerender: the content given to
\* text_maker.handle; rendered: the content after the post-processor;
\* refs: what store_attachment returned; handed: the lines given to store_note
NoHist ==
    [steps |-> <<>>, prerender |-> <<>>, rendered |-> <<>>, refs |-> <<>>,
     handed |-> <<>>]

\* no conversion is running
Idle ==
    /\ converter = Converter(FALSE, TIMEZONE_UTC)
    /\ converter_stats = NoConverterStats
    /\ parser = EnexParser(TRUE)
    /\ parser_stats = NoParserStats
    /\ enex_files = NoEnexFiles
    /\ archive = <<>>
    /\ idx = 1
    /\ pc = "idle"
    /\ cur_note = NoNote
    /\ cur_content = None
    /\ att = 1
    /\ raised = NoExc
    /\ stdout = <<>>
    /\ hist = NoHist

InitSink ==
    /\ sink \in {FileSystemSink(Root, TitleMd, Attachments, FALSE, <<"_">>, p) :
                    p \in ON_EXISTING_FILE}
    /\ disk \in {PreDisk(d) : d \in PreDisks}
    /\ written_files = {}
    /\ sink_stats = NoSinkStats
    /\ last = NoCall
    /\ calls = 0
    /\ Idle

Took(out) ==
    /\ written_files' = out.wf
    /\ disk' = out.dsk
    /\ sink_stats' = out.stats
    /\ calls' = calls + 1
    /\ UNCHANGED <<sink, convVars>>

StoreNote(note) ==
    /\ calls < MaxCalls
    /\ \E out \in {store_note(sink, written_files, disk, sink_stats, note,
                              << <<"n", "o", "t", "e">> \o DecStr(calls) >>)} :
           /\ Took(out)
           /\ last' = Call("store_note", note, out)

StoreAttachment(note, attachment) ==
    /\ calls < MaxCalls
    /\ \E out \in {store_attachment(sink, written_files, disk, sink_stats, note,
                                    attachment)} :
           /\ Took(out)
           /\ last' = Call("store_attachment", note, out)

NextSink ==
    \/ \E note \in SinkNotes : StoreNote(note)
    \/ \E note \in SinkNotes, attachment \in SinkAttachments :
            StoreAttachment(note, attachment)

SpecSink == InitSink /\ [][NextSink]_vars

--------------------------------------------------------------------------
(* Converter.convert and Converter.export_note, a statement at a time *)

\* a StdOutSink that keeps Sink.handle_attachments
StdOutSinkHandling == [handle_attachments |-> TRUE]

\* StdOutSink
StdOutSink == [handle_attachments |-> FALSE]

IsFileSystemSink(snk) == "root" \in DOMAIN snk

\* the path of the ENEX file
EnexPath == << <<"n", "b", ".", "e", "n", "e", "x">> >>

\* an exception leaves convert: nothing catches it
Raise(e) == pc' = "raised" /\ raised' = e

Step(name) == hist' = [hist EXCEPT !.steps = Append(@, name)]

\* for note in parser.extract_notes(enex): the next note is parsed
ExtractNote ==
    /\ pc = "convert"
    /\ idx <= Len(archive)
    /\ \E r \in {parse_note_element(parser.handle_attachments, archive[idx], EnexPath)} :
           /\ parser_stats' = [parser_stats EXCEPT
                                 !["notes parsed"] = @ + r.counted,
                                 !["attachments parsed"] = @ + r.parsed]
           /\ IF r.exc # NoExc
              THEN Raise(r.exc) /\ UNCHANGED <<cur_note, cur_content, hist>>
              ELSE /\ cur_note' = r.value
                   /\ cur_content' = r.value.content
                   /\ hist' = NoHist
                   /\ pc' = "_handle_attachments"
                   /\ UNCHANGED raised
    /\ idx' = idx + 1
    /\ att' = 1
    /\ UNCHANGED <<sinkVars, converter, converter_stats, parser, archive, enex_files, stdout>>

\* the loop of convert ends
Return ==
    /\ pc = "convert"
    /\ idx > Len(archive)
    /\ pc' = "returned"
    /\ UNCHANGED <<sinkVars, converter, converter_stats, parser, parser_stats, archive, enex_files,
                   idx, cur_note, cur_content, att, raised, stdout, hist>>

\* content = self.<name>(content): re.sub raises TypeError on None
Transform(at, next, name, result) ==
    /\ pc = at
    /\ IF cur_content = None
       THEN Raise("TypeError") /\ UNCHANGED <<cur_content, hist>>
       ELSE /\ cur_content' = result
            /\ Step(name)
            /\ pc' = next
            /\ UNCHANGED raised
    /\ UNCHANGED <<sinkVars, converter, converter_stats, parser, parser_stats, archive, enex_files,
                   idx, cur_note, att, stdout>>

\* if sink.handle_attachments: content = self._handle_attachments(content)
HandleAttachments ==
    IF sink.handle_attachments
    THEN Transform("_handle_attachments", "_handle_lists", "_handle_attachments",
                   _handle_attachments(cur_content))
    ELSE /\ pc = "_handle_attachments"
         /\ pc' = "_handle_lists"
         /\ UNCHANGED <<sinkVars, converter, converter_stats, parser, parser_stats,
                        archive, enex_files, idx, cur_note, cur_content, att, raised, stdout, hist>>

HandleLists ==
    Transform("_handle_lists", "_handle_tasks", "_handle_lists",
              _handle_lists(cur_content))

HandleTasks ==
    Transform("_handle_tasks", "_handle_strongs_emphases", "_handle_tasks",
              _handle_tasks(cur_content))

HandleStrongsEmphases ==
    Transform("_handle_strongs_emphases", "_handle_tables", "_handle_strongs_emphases",
              _handle_strongs_emphases(cur_content))

HandleTables ==
    Transform("_handle_tables", "_handle_codeblocks", "_handle_tables",
              _handle_tables(cur_content))

HandleCodeblocks ==
    Transform("_handle_codeblocks", "text_maker.handle", "_handle_codeblocks",
              _handle_codeblocks(cur_content))

\* content = text_maker.handle(content); what it is given is kept in
\* hist.prerender
TextMakerHandle ==
    /\ pc = "text_maker.handle"
    /\ cur_content' = text_maker_handle(cur_content)
    /\ hist' = [hist EXCEPT !.steps = Append(@, "text_maker.handle"),
                            !.prerender = cur_content]
    /\ pc' = "_post_processor_code_newlines"
    /\ UNCHANGED <<sinkVars, converter, converter_stats, parser, parser_stats, archive, enex_files,
                   idx, cur_note, att, raised, stdout>>

\* the post-processed content is kept in hist.rendered
PostProcessorCodeNewlines ==
    /\ pc = "_post_processor_code_newlines"
    /\ cur_content' = _post_processor_code_newlines(cur_content)
    /\ hist' = [hist EXCEPT !.steps = Append(@, "_post_processor_code_newlines"),
                            !.rendered = _post_processor_code_newlines(cur_content)]
    /\ pc' = "attachments"
    /\ UNCHANGED <<sinkVars, converter, converter_stats, parser, parser_stats, archive, enex_files,
                   idx, cur_note, att, raised, stdout>>

\* if sink.handle_attachments and note.attachments
HandlesAttachments ==
    /\ sink.handle_attachments
    /\ cur_note.attachments # NoAttachments
    /\ cur_note.attachments # <<>>

\* the store_note call without waiting for the loop
AttachmentsSkipped == TRUE

\* the loop over note.attachments is over, or is not entered
AttachmentsDone == HandlesAttachments => att > Len(cur_note.attachments)

\* str(path), the parts joined by "/"
RECURSIVE StrOfPath(_)
StrOfPath(path) ==
    IF Len(path) = 0 THEN <<>>
    ELSE IF Len(path) = 1 THEN path[1]
    ELSE path[1] \o <<"/">> \o StrOfPath(Tail(path))

\* f"\n![{attachment.file_name}]({attachment_ref})"
ImageRef(file_name, attachment_ref) ==
    <<"\n", "!", "[">> \o file_name \o <<"]", "(">> \o attachment_ref \o <<")">>

\* str(attachment_ref).replace(" ", "%20"), without the replace
PlainRef(ret) == StrOfPath(ret)

\* str(attachment_ref).replace(" ", "%20")
EncodedRef(ret) == Replace(StrOfPath(ret), <<" ">>, <<"%", "2", "0">>)

\* one turn of "for attachment in note.attachments": store_attachment, then
\* content.replace(placeholder, image reference)
ExportAttachment ==
    /\ pc = "attachments"
    /\ HandlesAttachments
    /\ att <= Len(cur_note.attachments)
    /\ \E attachment \in {cur_note.attachments[att]} :
       \E out \in {store_attachment(sink, written_files, disk, sink_stats, cur_note,
                                    attachment)} :
           /\ written_files' = out.wf
           /\ disk' = out.dsk
           /\ sink_stats' = out.stats
           /\ last' = Call("store_attachment", cur_note, out)
           /\ calls' = calls + 1
           /\ IF out.exc # NoExc
              THEN Raise(out.exc) /\ UNCHANGED <<cur_content, hist, att>>
              ELSE /\ cur_content' = Replace(cur_content, Placeholder(attachment.md5_hash),
                                             ImageRef(attachment.file_name,
                                                      EncodedRef(out.ret)))
                   /\ hist' = [hist EXCEPT !.steps = Append(@, "store_attachment"),
                                           !.refs = Append(@, out.ret)]
                   /\ att' = att + 1
                   /\ UNCHANGED <<pc, raised>>
    /\ UNCHANGED <<sink, converter, converter_stats, parser, parser_stats, archive, enex_files, idx,
                   cur_note, stdout>>

\* itertools.chain(self._format_header(note), [content])
Lines == _format_header(converter, cur_note) \o <<cur_content>>

NewNote == <<"--- New Note ---">>

EndNote == <<"--- End Note ---">>

\* sink.store_note(note=note, lines=...), after the last attachment
StoreNoteCall ==
    /\ pc = "attachments"
    /\ AttachmentsDone
    /\ IF IsFileSystemSink(sink)
       THEN \E out \in {store_note(sink, written_files, disk, sink_stats, cur_note, Lines)} :
                /\ written_files' = out.wf
                /\ disk' = out.dsk
                /\ sink_stats' = out.stats
                /\ last' = Call("store_note", cur_note, out)
                /\ calls' = calls + 1
                /\ UNCHANGED stdout
                /\ IF out.exc # NoExc
                   THEN Raise(out.exc) /\ UNCHANGED hist
                   ELSE /\ pc' = "count"
                        /\ hist' = [hist EXCEPT !.steps = Append(@, "store_note"),
                                                !.handed = Lines]
                        /\ UNCHANGED raised
       ELSE /\ stdout' = stdout \o <<NewNote>> \o Lines \o <<EndNote>>
            /\ pc' = "count"
            /\ hist' = [hist EXCEPT !.steps = Append(@, "store_note"), !.handed = Lines]
            /\ UNCHANGED <<written_files, disk, sink_stats, last, calls, raised>>
    /\ UNCHANGED <<sink, converter, converter_stats, parser, parser_stats, archive, enex_files, idx,
                   cur_note, cur_content, att>>

\* self.stats["notes exported"] += 1, and back to the loop of convert
CountExported ==
    /\ pc = "count"
    /\ converter_stats' = [converter_stats EXCEPT !["notes exported"] = @ + 1]
    /\ hist' = [hist EXCEPT !.steps = Append(@, "notes exported")]
    /\ pc' = "convert"
    /\ UNCHANGED <<sinkVars, converter, parser, parser_stats, archive, enex_files, idx, cur_note,
                   cur_content, att, raised, stdout>>

NextConvert ==
    \/ ExtractNote
    \/ Return
    \/ HandleAttachments
    \/ HandleLists
    \/ HandleTasks
    \/ HandleStrongsEmphases
    \/ HandleTables
    \/ HandleCodeblocks
    \/ TextMakerHandle
    \/ PostProcessorCodeNewlines
    \/ ExportAttachment
    \/ StoreNoteCall
    \/ CountExported

--------------------------------------------------------------------------
(* Exporting one note: bodies built from a few kinds of markup, and lists  *)
(* of resources                                                            *)

\* number of pieces of markup in a body
MaxChunks == 2

Timestamp1 == <<"20230709", "T", "184204", "Z">>

Timestamp2 == <<"20230712", "T", "184322", "Z">>

Resource(data, file_name, mime) ==
    [data |-> data, file_name |-> file_name, mime |-> mime,
     width |-> Missing, height |-> Missing]

ImagePng == <<"i", "m", "a", "g", "e", "/", "p", "n", "g">>

\* f.png
ResourceA == Resource(<<"YQ==">>, FPng, ImagePng)

\* the same bytes under another name, one with a space: "g h"
ResourceA2 == Resource(<<"\n", "YQ==", "\n">>, <<"g", " ", "h">>, Missing)

ResourceB == Resource(<<"Yg==">>, Missing, ImagePng)

ResourceLists ==
    {<<>>, <<ResourceA>>, <<ResourceB>>, <<ResourceA, ResourceA2>>,
     <<ResourceA2, ResourceA>>, <<ResourceA, ResourceB>>}

\* <en-media hash="..."/> in a div
EnMedia(hash) ==
    <<DivOpen, EnMediaOpen, HashAttr>> \o hash \o <<Quote, " ", "/>", DivClose>>

Chunks ==
    {<<DivOpen, "l", "o", DivClose>>,
     EnMedia(<<"a", "1">>),
     EnMedia(<<"A", "1">>),
     EnMedia(<<"b", "2">>),
     <<CodeblockOpen, DivOpen, "x", LeftCurlyQuote, DivClose, DivClose>>}

RECURSIVE Bodies(_)
Bodies(n) ==
    IF n = 0 THEN {<<>>}
    ELSE Bodies(n - 1) \cup {b \o c : b \in Bodies(n - 1), c \in Chunks}

NoteElement(title, body, resources) ==
    [title |-> title, content |-> body, tags |-> <<>>, created |-> Timestamp1,
     updated |-> Missing, author |-> Missing, source_url |-> Missing,
     resources |-> resources]

EmptyDisk == PreDisk([p \in {} |-> "none"])

\* cli.app: the sink, the parser and the converter are constructed, and
\* convert is called on one ENEX file
Started ==
    /\ written_files = {}
    /\ sink_stats = NoSinkStats
    /\ last = NoCall
    /\ calls = 0
    /\ converter_stats = NoConverterStats
    /\ parser_stats = NoParserStats
    /\ idx = 1
    /\ pc = "convert"
    /\ cur_note = NoNote
    /\ cur_content = None
    /\ att = 1
    /\ raised = NoExc
    /\ stdout = <<>>
    /\ hist = NoHist

InitExport ==
    /\ sink \in {StdOutSink, FileSystemSink(Root, TitleMd, Attachments, TRUE, <<"_">>, BUMP)}
    /\ parser \in {EnexParser(h) : h \in BOOLEAN}
    /\ converter = Converter(FALSE, TIMEZONE_UTC)
    /\ disk = EmptyDisk
    /\ enex_files = NoEnexFiles
    /\ archive \in {<<NoteElement(<<"a">>, body, resources)>> :
                        body \in Bodies(MaxChunks) \ {<<>>}, resources \in ResourceLists}
    /\ Started

SpecExport == InitExport /\ [][NextConvert]_vars

--------------------------------------------------------------------------
(* Converting an ENEX file of several notes, some with resource elements   *)
(* that have no data                                                       *)

\* number of notes in the ENEX file
MaxNotes == 2

\* a resource without a data element, and one with an empty data element
ResourceNoData == Resource(Missing, FPng, ImagePng)

ResourceEmptyData == Resource(None, FPng, ImagePng)

NoteElements ==
    {NoteElement(<<"a">>, <<DivOpen, "l", "o", DivClose>>, <<>>),
     NoteElement(<<"b">>, EnMedia(<<"a", "1">>), <<ResourceA>>),
     NoteElement(<<"c">>, EnMedia(<<"a", "1">>), <<ResourceNoData, ResourceA>>),
     NoteElement(<<"d">>, EnMedia(<<"a", "1">>), <<ResourceA, ResourceEmptyData>>)}

RECURSIVE Archives(_)
Archives(n) ==
    IF n = 0 THEN {<<>>}
    ELSE Archives(n - 1) \cup {Append(a, e) : a \in Archives(n - 1), e \in NoteElements}

InitConvert ==
    /\ sink \in {StdOutSink, FileSystemSink(Root, TitleMd, Attachments, TRUE, <<"_">>, BUMP)}
    /\ parser = EnexParser(TRUE)
    /\ converter = Converter(FALSE, TIMEZONE_UTC)
    /\ disk = EmptyDisk
    /\ enex_files = NoEnexFiles
    /\ archive \in Archives(MaxNotes)
    /\ Started

SpecConvert == InitConvert /\ [][NextConvert]_vars

--------------------------------------------------------------------------
(* _format_header on its own, for the notes the parser gives              *)

Author == <<"m", "e">>

SourceUrl == <<"h", ":", "/", "/", "x">>

HeaderElements ==
    {[title |-> title, content |-> <<DivOpen, "l", "o", DivClose>>, tags |-> tags,
      created |-> created, updated |-> updated, author |-> author,
      source_url |-> source_url, resources |-> <<>>] :
        title \in {<<"a">>, Missing},
        tags \in {<<>>, << <<"t">> >>, << <<"t">>, None, <<"u", "v">> >>},
        created \in {Missing, Timestamp1},
        updated \in {Missing, Timestamp2},
        author \in {Missing, None, Author},
        source_url \in {Missing, None, SourceUrl}}

InitHeader ==
    /\ converter \in {Converter(f, tz) : f \in BOOLEAN, tz \in {TIMEZONE_UTC, TIMEZONE_LOCAL}}
    /\ cur_note \in {parse_note_element(TRUE, e, EnexPath).value : e \in HeaderElements}
    /\ pc = "_format_header"
    /\ sink = StdOutSink
    /\ parser = EnexParser(TRUE)
    /\ disk = EmptyDisk
    /\ enex_files = NoEnexFiles
    /\ archive = <<>>
    /\ written_files = {}
    /\ sink_stats = NoSinkStats
    /\ last = NoCall
    /\ calls = 0
    /\ converter_stats = NoConverterStats
    /\ parser_stats = NoParserStats
    /\ idx = 1
    /\ cur_content = None
    /\ att = 1
    /\ raised = NoExc
    /\ stdout = <<>>
    /\ hist = NoHist

\* list(self._format_header(note)): the lines are kept in hist.handed
FormatHeader ==
    /\ pc = "_format_header"
    /\ hist' = [hist EXCEPT !.handed = _format_header(converter, cur_note)]
    /\ pc' = "formatted"
    /\ UNCHANGED <<sinkVars, converter, converter_stats, parser, parser_stats, archive, enex_files,
                   idx, cur_note, cur_content, att, raised, stdout>>

NextHeader == FormatHeader

SpecHeader == InitHeader /\ [][NextHeader]_vars

--------------------------------------------------------------------------
(* Properties of the sink *)

\* path with the counter k appended to its stem, as _bump_while names it
Suffixed(path, k) ==
    PathWithName(path, PathStem(path) \o <<"_">> \o DecStr(k) \o PathSuffix(path))

\* the first of path, path_1, path_2, ... that is not in the set taken
FirstOutside(path, taken) ==
    IF path \notin taken THEN path
    ELSE LET k == CHOOSE k \in 1..(Cardinality(taken) + 1) :
                    /\ Suffixed(path, k) \notin taken
                    /\ \A j \in 1..(k - 1) : Suffixed(path, j) \in taken
         IN  Suffixed(path, k)

\* the first of path_1, path_2, ... that is not in the set taken
FirstSuffixedOutside(path, taken) ==
    LET k == CHOOSE k \in 1..(Cardinality(taken) + 1) :
                /\ Suffixed(path, k) \notin taken
                /\ \A j \in 1..(k - 1) : Suffixed(path, j) \in taken
    IN  Suffixed(path, k)

\* the path the note's template gives for the note of the last call
LastTemplatePath == TemplatePath(sink, sink.note_path_template, last.note)

\* every file and folder that was there before the last call is as it was
LastKeptAll ==
    \A p \in DOMAIN last.disk_before : p \in DOMAIN disk /\ disk[p] = last.disk_before[p]

\* the last call changed no file other than the one at path
LastChangedOnly(path) ==
    /\ \A p \in DOMAIN last.disk_before \ {path} :
            p \in DOMAIN disk /\ disk[p] = last.disk_before[p]
    /\ \A p \in DOMAIN disk \ DOMAIN last.disk_before : p = path \/ disk[p] = Dir

\* the names a path can be bumped to: one or two counters appended
BumpedNames(path, n) ==
    {Suffixed(path, k) : k \in 1..n}
        \cup {Suffixed(Suffixed(path, k), j) : k \in 1..n, j \in 1..n}

\* C1: under the BUMP policy every store_note call leaves every file that
\* was on disk before the call (pre-existing or written earlier in the run)
\* as it was; the path it writes neither existed on disk nor was in
\* written_files before the call, and it is the templated path or that path
\* with a numeric suffix appended to its stem.
C1_BumpNeverOverwrites ==
    (last.op = "store_note" /\ sink.on_existing_file = BUMP) =>
        /\ LastKeptAll
        /\ last.exc = NoExc =>
            /\ last.path \notin DOMAIN last.disk_before
            /\ last.path \notin last.written_before
            /\ IsFile(disk, last.path)
            /\ \/ last.path = LastTemplatePath
               \/ last.path \in BumpedNames(LastTemplatePath,
                                            Cardinality(DOMAIN last.disk_before) + 1)
            /\ (LastTemplatePath \in DOMAIN last.disk_before) =>
                    last.path # LastTemplatePath

\* a note written under BUMP whose templated path was written earlier in
\* the run, with a pre-existing file in the way of the first bump
C1_Witness ==
    /\ last.op = "store_note"
    /\ sink.on_existing_file = BUMP
    /\ last.exc = NoExc
    /\ LastTemplatePath \in last.written_before
    /\ \E p \in DOMAIN last.disk_before :
            last.disk_before[p] = File(Old) /\ last.path = Suffixed(p, 1)

\* C2 as stated: whenever the templated path of the note exists as a file
\* on disk, FAIL raises FileExistsError for that path and writes nothing,
\* OVERWRITE and WARN write exactly that path (WARN with a warning), BUMP
\* writes the first free suffixed name of that path.
C2_PolicyAtTemplatePath ==
    (last.op = "store_note" /\ IsFile(last.disk_before, LastTemplatePath)) =>
        CASE sink.on_existing_file = FAIL ->
                /\ last.exc = "FileExistsError"
                /\ last.path = LastTemplatePath
                /\ disk = last.disk_before
          [] sink.on_existing_file \in {OVERWRITE, WARN} ->
                /\ last.exc = NoExc
                /\ last.path = LastTemplatePath
                /\ LastChangedOnly(LastTemplatePath)
                /\ last.warned = (sink.on_existing_file = WARN)
          [] OTHER ->
                /\ last.exc = NoExc
                /\ last.path = FirstSuffixedOutside(LastTemplatePath,
                                                    DOMAIN last.disk_before)

\* the templated path bumped past the paths written earlier in the run
LastTarget == FirstOutside(LastTemplatePath, last.written_before)

\* C2 (amended): whenever the target path (the templated path, bumped past
\* the paths written earlier in this run) exists as a file on disk, FAIL
\* raises FileExistsError for it and leaves the disk and written_files as
\* they were; OVERWRITE and WARN write exactly that path and change no
\* other file, WARN logging a warning and OVERWRITE none; BUMP writes the
\* first free suffixed name of the target path.
C2_PolicyAtTarget ==
    (last.op = "store_note" /\ IsFile(last.disk_before, LastTarget)) =>
        CASE sink.on_existing_file = FAIL ->
                /\ last.exc = "FileExistsError"
                /\ last.path = LastTarget
                /\ disk = last.disk_before
                /\ written_files = last.written_before
          [] sink.on_existing_file \in {OVERWRITE, WARN} ->
                /\ last.exc = NoExc
                /\ last.path = LastTarget
                /\ disk[LastTarget] # last.disk_before[LastTarget]
                /\ LastChangedOnly(LastTarget)
                /\ last.warned = (sink.on_existing_file = WARN)
          [] OTHER ->
                /\ last.exc = NoExc
                /\ last.path = FirstSuffixedOutside(LastTarget, DOMAIN last.disk_before)
                /\ IsFile(disk, last.path)
                /\ LastKeptAll

\* a store_note call whose target path is a pre-existing file, reached
\* after an earlier note of the run took the templated path
C2_Witness ==
    /\ last.op = "store_note"
    /\ LastTarget # LastTemplatePath
    /\ IsFile(last.disk_before, LastTarget)
    /\ last.disk_before[LastTarget] = File(Old)
    /\ sink.on_existing_file \in {FAIL, WARN}

\* the path store_attachment is to write when nothing was written there in
\* this run: the attachments folder with the attachment's file name
LastAttachmentTarget ==
    Append(TemplatePath(sink, sink.attachments_path_template, last.note), FPng)

\* C3 as stated: when the target path of an attachment is a file that was
\* on disk before the run, store_attachment overwrites it only under
\* OVERWRITE or WARN; under FAIL it raises and leaves the file as it was,
\* under BUMP it writes a suffixed name that did not exist.
C3_PolicyGovernsAttachments ==
    (/\ last.op = "store_attachment"
     /\ LastAttachmentTarget \in DOMAIN last.disk_before
     /\ last.disk_before[LastAttachmentTarget] = File(Old)) =>
        CASE sink.on_existing_file = FAIL ->
                /\ last.exc = "FileExistsError"
                /\ disk[LastAttachmentTarget] = File(Old)
          [] sink.on_existing_file = BUMP ->
                /\ disk[LastAttachmentTarget] = File(Old)
                /\ last.path \notin DOMAIN last.disk_before
          [] OTHER -> last.path = LastAttachmentTarget

--------------------------------------------------------------------------
(* Properties of export_note *)

\* pat occurs in text at index i
Occurs(text, i, pat) ==
    /\ i + Len(pat) - 1 <= Len(text)
    /\ \A k \in 1..Len(pat) : text[i + k - 1] = pat[k]

\* the number of occurrences of pat in text
Count(text, pat) == Cardinality({i \in 1..Len(text) : Occurs(text, i, pat)})

\* store_note has returned for the current note
Exported == pc = "count"

\* the content handed to the sink: the last of the lines
Final == Last(hist.handed)

\* a hash with its letters in upper case
UpperHex(h) ==
    [i \in 1..Len(h) |->
        IF h[i] \in Range(LowerCase) THEN UpperCase[IndexOf(LowerCase, h[i])] ELSE h[i]]

\* the ways an en-media element may write the hash of an attachment
HashForms(h) == {h, UpperHex(h)}

\* no other attachment of the note has the bytes of attachment i
OnlyWithHash(i) ==
    \A j \in 1..Len(cur_note.attachments) :
        j # i => cur_note.attachments[j].md5_hash # cur_note.attachments[i].md5_hash

\* "![<file_name>](", the start of an image reference to the attachment
ImageStart(attachment) == <<"!", "[">> \o attachment.file_name \o <<"]", "(">>

\* C4 as stated: in a note exported to a sink that handles attachments,
\* an attachment (the only one with its bytes) whose placeholder appears
\* exactly once in the pre-render output, its hash written in lower or in
\* upper case, has exactly one image reference in the final content and no
\* raw placeholder left there.
C4_PlaceholderResolvedOnce ==
    (Exported /\ HandlesAttachments) =>
        \A i \in 1..Len(cur_note.attachments) :
            \A h \in HashForms(cur_note.attachments[i].md5_hash) :
                (/\ OnlyWithHash(i)
                 /\ Count(hist.prerender, Placeholder(h)) = 1
                 /\ \A g \in HashForms(cur_note.attachments[i].md5_hash) \ {h} :
                        Count(hist.prerender, Placeholder(g)) = 0)
                    => /\ Count(Final, ImageStart(cur_note.attachments[i])) = 1
                       /\ Count(Final, <<PlaceholderOpen>> \o h) = 0

\* C5 as stated: the content handed to the sink for a note without
\* attachments (the list empty or None) holds no attachment placeholder and
\* no code-block sentinel.
C5_NoStraySentinel ==
    (Exported /\ (cur_note.attachments = <<>> \/ cur_note.attachments = NoAttachments)) =>
        \A k \in 1..Len(Final) : Final[k] \notin {PlaceholderOpen, CodeBegin, CodeEnd}

\* text with every space written as %20 and every other character as it is
RECURSIVE PercentEncoded(_)
PercentEncoded(text) ==
    IF Len(text) = 0 THEN <<>>
    ELSE (IF Head(text) = " " THEN <<"%", "2", "0">> ELSE <<Head(text)>>)
             \o PercentEncoded(Tail(text))

\* the image reference the claim describes for attachment i of the note
Reference(i) ==
    <<"\n">> \o ImageStart(cur_note.attachments[i])
        \o PercentEncoded(StrOfPath(hist.refs[i])) \o <<")">>

\* the attachments whose placeholder occurs in text at index i
PlacedAt(text, i) ==
    {a \in 1..Len(cur_note.attachments) :
        Occurs(text, i, Placeholder(cur_note.attachments[a].md5_hash))}

LeastOf(set) == CHOOSE a \in set : \A b \in set : a <= b

\* text from index i on, every placeholder of an attachment of the note
\* replaced by the reference of the first attachment with that hash
RECURSIVE ResolvedFrom(_, _)
ResolvedFrom(text, i) ==
    IF i > Len(text) THEN <<>>
    ELSE IF PlacedAt(text, i) # {}
    THEN Reference(LeastOf(PlacedAt(text, i)))
             \o ResolvedFrom(text,
                    i + Len(Placeholder(cur_note.attachments[LeastOf(PlacedAt(text, i))].md5_hash)))
    ELSE <<text[i]>> \o ResolvedFrom(text, i + 1)

\* C6 as stated: every attachment of the note has as many references
\* "\n![<file_name>](<ref>)", <ref> the path store_attachment returned for it
\* with spaces as %20, in the final content as its placeholder had
\* occurrences in the post-processed content, and no placeholder left.
C6_EveryAttachmentReferenced ==
    (Exported /\ HandlesAttachments) =>
        \A i \in 1..Len(cur_note.attachments) :
            /\ Count(Final, Reference(i))
                    = Count(hist.rendered, Placeholder(cur_note.attachments[i].md5_hash))
            /\ Count(Final, Placeholder(cur_note.attachments[i].md5_hash)) = 0

\* C6: the final content is the post-processed content with every
\* occurrence of a placeholder whose hash is that of an attachment of the
\* note replaced by "\n![<file_name>](<ref>)" of the first attachment in the
\* list with that hash, <ref> the path store_attachment returned for it with
\* every space as %20 and every other character unchanged; the rest of the
\* content is unchanged.
C6_FirstWithHashReferenced ==
    (Exported /\ HandlesAttachments) => Final = ResolvedFrom(hist.rendered, 1)

\* two attachments with the same bytes, their placeholder twice in the
\* content, and a space in the path store_attachment returned
C6_Witness ==
    /\ Exported /\ HandlesAttachments
    /\ Len(hist.refs) = 2
    /\ cur_note.attachments[1].md5_hash = cur_note.attachments[2].md5_hash
    /\ Count(hist.rendered, Placeholder(cur_note.attachments[1].md5_hash)) = 2
    /\ " " \in Range(StrOfPath(hist.refs[1]))
    /\ Count(Final, Reference(1)) = 2

\* the calls of export_note for the current note, in the order of the claim
ExpectedSteps ==
    (IF sink.handle_attachments THEN <<"_handle_attachments">> ELSE <<>>)
    \o <<"_handle_lists", "_handle_tasks", "_handle_strongs_emphases", "_handle_tables",
         "_handle_codeblocks", "text_maker.handle", "_post_processor_code_newlines">>
    \o [i \in 1..(IF HandlesAttachments THEN Len(cur_note.attachments) ELSE 0) |->
            "store_attachment"]
    \o <<"store_note", "notes exported">>

IsPrefix(s, t) == Len(s) <= Len(t) /\ s = SubSeq(t, 1, Len(s))

\* C9: the calls made for a note are, at every moment, the first ones of:
\* attachment marker substitution (only for a sink that handles
\* attachments), list spacing, task checkboxes, inline emphasis, table
\* cleanup, code-block conversion, rendering, post-render cleanup, one
\* store_attachment per attachment, one store_note, the increment of the
\* export counter; the counter is incremented only after store_note.
C9_FixedOrder ==
    /\ hist.steps # <<>> => IsPrefix(hist.steps, ExpectedSteps)
    /\ converter_stats["notes exported"] =
            Cardinality({k \in 1..Len(hist.steps) : hist.steps[k] = "notes exported"})
    /\ \A k \in 1..Len(hist.steps) :
            hist.steps[k] = "notes exported" => k > 1 /\ hist.steps[k - 1] = "store_note"

\* a note with two attachments went through every step
C9_Witness ==
    /\ pc = "convert"
    /\ Len(hist.steps) = 12
    /\ Len(hist.refs) = 2
    /\ hist.steps = ExpectedSteps
    /\ converter_stats["notes exported"] = 1

\* C10: with a StdOutSink export_note never calls store_attachment, never
\* runs the attachment marker substitution, and no placeholder is in the
\* content or in what is printed.
C10_StdOutNoAttachments ==
    ~IsFileSystemSink(sink) =>
        /\ "store_attachment" \notin Range(hist.steps)
        /\ "_handle_attachments" \notin Range(hist.steps)
        /\ calls = 0
        /\ PlaceholderOpen \notin Range(cur_content)
        /\ \A k \in 1..Len(stdout) : PlaceholderOpen \notin Range(stdout[k])

\* a note with attachments and an en-media element printed by a StdOutSink
C10_Witness ==
    /\ ~IsFileSystemSink(sink)
    /\ pc = "convert"
    /\ Len(stdout) > 0
    /\ cur_note.attachments # NoAttachments
    /\ Len(cur_note.attachments) = 2
    /\ EnMediaOpen \in Range(archive[1].content)

--------------------------------------------------------------------------
(* Properties of convert *)

Malformed(resource) == resource.data = Missing \/ resource.data = None

\* the number of resources of the notes of the archive that have data
RECURSIVE WellFormed(_)
WellFormed(resources) ==
    IF Len(resources) = 0 THEN 0
    ELSE (IF Malformed(Head(resources)) THEN 0 ELSE 1) + WellFormed(Tail(resources))

RECURSIVE WellFormedIn(_)
WellFormedIn(elements) ==
    IF Len(elements) = 0 THEN 0
    ELSE WellFormed(Head(elements).resources) + WellFormedIn(Tail(elements))

\* C7 as stated: when convert ends on an archive whose only flaw is
\* resource elements without data, no exception has ended it, every resource
\* that has data was parsed, and every note of the archive was exported.
C7_MalformedResourceSkipped ==
    pc \in {"returned", "raised"} =>
        /\ raised = NoExc
        /\ parser_stats["attachments parsed"] = WellFormedIn(archive)
        /\ parser_stats["notes parsed"] = Len(archive)
        /\ converter_stats["notes exported"] = Len(archive)

--------------------------------------------------------------------------
(* Properties of _format_header *)

\* the metadata of a note: the key, the key as a bullet names it, and
\* whether the note has it
HeaderFields ==
    {[key |-> <<"t", "i", "t", "l", "e">>, bullet |-> <<"T", "i", "t", "l", "e">>,
      present |-> TRUE],
     [key |-> <<"a", "u", "t", "h", "o", "r">>, bullet |-> <<"A", "u", "t", "h", "o", "r">>,
      present |-> cur_note.author # None],
     [key |-> <<"s", "o", "u", "r", "c", "e", "_", "u", "r", "l">>,
      bullet |-> <<"S", "o", "u", "r", "c", "e", "_", "U", "r", "l">>,
      present |-> cur_note.source_url # None],
     [key |-> <<"c", "r", "e", "a", "t", "e", "d">>,
      bullet |-> <<"C", "r", "e", "a", "t", "e", "d">>,
      present |-> cur_note.created # None],
     [key |-> <<"u", "p", "d", "a", "t", "e", "d">>,
      bullet |-> <<"U", "p", "d", "a", "t", "e", "d">>,
      present |-> cur_note.updated # None],
     [key |-> <<"t", "a", "g", "s">>, bullet |-> <<"T", "a", "g", "s">>,
      present |-> cur_note.tags # <<>>]}

StartsWith(line, prefix) ==
    Len(line) >= Len(prefix) /\ SubSeq(line, 1, Len(prefix)) = prefix

\* the indexes of the lines that start with the prefix
LinesWith(lines, prefix) == {k \in 1..Len(lines) : StartsWith(lines[k], prefix)}

\* the indexes of the lines equal to the line
LinesEqual(lines, line) == {k \in 1..Len(lines) : lines[k] = line}

NumberPresent == Cardinality({f \in HeaderFields : f.present})

TitleHeading ==
    <<"#", " ">> \o (IF cur_note.title = None THEN <<"N", "o", "n", "e">> ELSE cur_note.title)

\* the header with front matter: "---", one "key: value" line for each
\* field the note has, "---", and no subheading
FrontMatterHeader(lines) ==
    /\ LinesEqual(lines, <<"-", "-", "-">>) = {1, NumberPresent + 2}
    /\ \A f \in HeaderFields :
          /\ Cardinality(LinesWith(lines, f.key \o <<":", " ">>))
                = (IF f.present THEN 1 ELSE 0)
          /\ LinesWith(lines, f.key \o <<":", " ">>) \subseteq 2..(NumberPresent + 1)
          /\ LinesWith(lines, <<"-", " ">> \o f.bullet) = {}
    /\ LinesEqual(lines, NoteMetadataHeading) = {}
    /\ LinesEqual(lines, NoteContentHeading) = {}

\* the header without front matter: "## Note metadata", one "- Key: value"
\* bullet for each field the note has, then "## Note Content"
BulletHeader(lines) ==
    /\ LinesEqual(lines, <<"-", "-", "-">>) = {}
    /\ Cardinality(LinesEqual(lines, NoteMetadataHeading)) = 1
    /\ Cardinality(LinesEqual(lines, NoteContentHeading)) = 1
    /\ \A f \in HeaderFields :
          /\ Cardinality(LinesWith(lines, <<"-", " ">> \o f.bullet \o <<":", " ">>))
                = (IF f.present THEN 1 ELSE 0)
          /\ \A k \in LinesWith(lines, <<"-", " ">> \o f.bullet \o <<":", " ">>) :
                /\ \A m \in LinesEqual(lines, NoteMetadataHeading) : m < k
                /\ \A c \in LinesEqual(lines, NoteContentHeading) : k < c
          /\ LinesWith(lines, f.key \o <<":", " ">>) = {}

\* C8: the header _format_header emits has the title heading once and one
\* metadata entry for title and for each of author, source_url, created,
\* updated and tags that the note has, none for one it has not; with
\* front_matter the entries are "key: value" lines between two "---" lines
\* and there is no subheading, without it they are "- Key: value" bullets
\* between "## Note metadata" and "## Note Content".
C8_HeaderEntries ==
    pc = "formatted" =>
        /\ Cardinality(LinesEqual(hist.handed, TitleHeading)) = 1
        /\ IF converter.front_matter THEN FrontMatterHeader(hist.handed)
           ELSE BulletHeader(hist.handed)

\* a header with front matter for a note with an author, tags and a
\* creation time, without source URL and update time
C8_Witness ==
    /\ pc = "formatted"
    /\ converter.front_matter
    /\ cur_note.author # None /\ cur_note.tags # <<>> /\ cur_note.created # None
    /\ cur_note.source_url = None /\ cur_note.updated = None
    /\ Len(hist.handed) = 10

--------------------------------------------------------------------------
(* Constructing the FileSystemSink: _check_root_condition, and the calls   *)
(* that a constructed sink then takes                                      *)

LEAVE_AS_IS == "leave-as-is"
REQUIRE_EMPTY == "require-empty"
ROOT_CONDITION == {LEAVE_AS_IS, REQUIRE_EMPTY}

\* Path.iterdir(): the entries directly in the folder
IterDir(dsk, path) ==
    {p \in DOMAIN dsk : Len(p) = Len(path) + 1 /\ SubSeq(p, 1, Len(path)) = path}

NoMessage == <<>>

MustBeAFolder(root) == <<"Must be a folder: ">> \o StrOfPath(root)

MustBeEmpty(item_count, root) ==
    <<"Must be an empty folder but found ">> \o DecStr(item_count)
        \o <<" items: ">> \o StrOfPath(root)

\* a check that leaves every root as it is
_check_root_leave_as_is(dsk, root, root_condition) == [exc |-> NoExc, message |-> NoMessage]

_check_root_condition(dsk, root, root_condition) ==
    IF ~Exists(dsk, root) THEN [exc |-> NoExc, message |-> NoMessage]
    ELSE IF dsk[root].kind # "dir"
    THEN [exc |-> "AssertionError", message |-> MustBeAFolder(root)]
    ELSE IF root_condition = LEAVE_AS_IS THEN [exc |-> NoExc, message |-> NoMessage]
    ELSE IF root_condition = REQUIRE_EMPTY
    THEN IF Cardinality(IterDir(dsk, root)) = 0
         THEN [exc |-> NoExc, message |-> NoMessage]
         ELSE [exc |-> "AssertionError",
               message |-> MustBeEmpty(Cardinality(IterDir(dsk, root)), root)]
    ELSE [exc |-> "ValueError", message |-> <<root_condition>>]

\* no sink yet
NoSink == [handle_attachments |-> FALSE, constructed |-> FALSE]

\* the roots a sink may be given: no root, an empty folder, a file, and
\* folders of one to three items
RootDisks ==
    {PreDisk(d) : d \in PreDisks} \cup {Root :> Dir, Root :> File(Old)}

InitConstruct ==
    /\ sink = NoSink
    /\ disk \in RootDisks
    /\ written_files = {}
    /\ sink_stats = NoSinkStats
    /\ last = NoCall
    /\ calls = 0
    /\ Idle

\* FileSystemSink(root=Root, note_path_template=..., root_condition=...,
\* on_existing_file=...): the object exists only when __init__ returns
Construct(root_condition, on_existing_file) ==
    /\ sink = NoSink
    /\ pc = "idle"
    /\ \E out \in {_check_root_condition(disk, Root, root_condition)} :
        /\ last' = [op |-> "__init__", root_condition |-> root_condition,
                    exc |-> out.exc, message |-> out.message,
                    disk_before |-> disk, written_before |-> written_files]
        /\ IF out.exc = NoExc
           THEN /\ sink' = FileSystemSink(Root, TitleMd, Attachments, FALSE,
                                          <<"_">>, on_existing_file)
                /\ UNCHANGED <<pc, raised>>
           ELSE /\ Raise(out.exc)
                /\ UNCHANGED sink
    /\ UNCHANGED <<disk, written_files, sink_stats, calls, converter,
                   converter_stats, parser, parser_stats, archive, enex_files, idx,
                   cur_note, cur_content, att, stdout, hist>>

NextConstruct ==
    \/ \E root_condition \in ROOT_CONDITION, on_existing_file \in ON_EXISTING_FILE :
            Construct(root_condition, on_existing_file)
    \/ /\ IsFileSystemSink(sink)
       /\ \E note \in SinkNotes : StoreNote(note)
    \/ /\ IsFileSystemSink(sink)
       /\ \E note \in SinkNotes, attachment \in SinkAttachments :
            StoreAttachment(note, attachment)

SpecConstruct == InitConstruct /\ [][NextConstruct]_vars

\* the root as __init__ found it
RootMissingOrEmpty ==
    \/ ~Exists(last.disk_before, Root)
    \/ /\ last.disk_before[Root].kind = "dir"
       /\ IterDir(last.disk_before, Root) = {}

RootItems == Cardinality(IterDir(last.disk_before, Root))

RootHasItems ==
    /\ Exists(last.disk_before, Root)
    /\ last.disk_before[Root].kind = "dir"
    /\ RootItems >= 1

\* C11: constructing a FileSystemSink with root condition require-empty
\* succeeds when the root does not exist or is an empty folder, and fails
\* with AssertionError "Must be an empty folder but found N items" when the
\* root holds N >= 1 items; a failed construction leaves no sink, has
\* written no file and precedes every store call
C11_RequireEmptyAtConstruction ==
    /\ (last.op = "__init__" /\ last.root_condition = REQUIRE_EMPTY) =>
        /\ RootMissingOrEmpty => (last.exc = NoExc /\ IsFileSystemSink(sink))
        /\ RootHasItems =>
            /\ last.exc = "AssertionError"
            /\ SubSeq(last.message, 1, Len(last.message) - 1)
                 = <<"Must be an empty folder but found ">> \o DecStr(RootItems)
                       \o <<" items: ">>
            /\ pc = "raised" /\ raised = "AssertionError"
    /\ pc = "raised" =>
        /\ last.op = "__init__"
        /\ sink = NoSink
        /\ calls = 0
        /\ disk = last.disk_before
        /\ written_files = {}
        /\ sink_stats = NoSinkStats
    /\ calls > 0 => IsFileSystemSink(sink)

\* a require-empty construction has failed on a root of two items
C11_Witness ==
    /\ last.op = "__init__"
    /\ last.root_condition = REQUIRE_EMPTY
    /\ RootItems = 2
    /\ pc = "raised"

--------------------------------------------------------------------------
(* parse_note_element on its own: note elements with and without a title   *)
(* and a created child                                                     *)

\* a created child whose text is no ENEX timestamp
BadTimestamp == <<"2", "0", "2", "3">>

\* <title> is absent, empty (its text is None) or holds a text; <created>
\* is absent, empty, malformed or a timestamp
ParseElements ==
    {[title |-> title, content |-> <<DivOpen, "l", "o", DivClose>>, tags |-> <<>>,
      created |-> created, updated |-> Missing, author |-> Missing,
      source_url |-> Missing, resources |-> <<>>] :
        title \in {Missing, None, <<"a">>},
        created \in {Missing, None, BadTimestamp, Timestamp1}}

InitParse ==
    /\ enex_files = NoEnexFiles
    /\ archive \in UNION {[1..n -> ParseElements] : n \in 1..MaxNotes}
    /\ parser \in {EnexParser(TRUE), EnexParser(FALSE)}
    /\ pc = "parse"
    /\ sink = StdOutSink
    /\ converter = Converter(FALSE, TIMEZONE_UTC)
    /\ disk = EmptyDisk
    /\ written_files = {}
    /\ sink_stats = NoSinkStats
    /\ last = NoCall
    /\ calls = 0
    /\ converter_stats = NoConverterStats
    /\ parser_stats = NoParserStats
    /\ idx = 1
    /\ cur_note = NoNote
    /\ cur_content = None
    /\ att = 1
    /\ raised = NoExc
    /\ stdout = <<>>
    /\ hist = NoHist

\* note = parser.parse_note_element(element, source_enex): the note is kept
\* in cur_note; an exception ends the parsing
ParseNoteElement ==
    /\ pc = "parse"
    /\ idx <= Len(archive)
    /\ \E r \in {parse_note_element(parser.handle_attachments, archive[idx], EnexPath)} :
           /\ parser_stats' = [parser_stats EXCEPT
                                 !["notes parsed"] = @ + r.counted,
                                 !["attachments parsed"] = @ + r.parsed]
           /\ IF r.exc # NoExc
              THEN Raise(r.exc) /\ UNCHANGED cur_note
              ELSE cur_note' = r.value /\ UNCHANGED <<pc, raised>>
    /\ idx' = idx + 1
    /\ UNCHANGED <<sinkVars, converter, converter_stats, parser, archive, enex_files, cur_content,
                   att, stdout, hist>>

NextParse == ParseNoteElement

SpecParse == InitParse /\ [][NextParse]_vars

\* a datetime with a utc offset
IsAware(d) == Len(d) = 3 /\ d[3] \in {"+00:00", LocalOffset}

\* C12: every ParsedNote that parse_note_element produces has a created
\* timestamp that is present and timezone-aware and a title that is a
\* string, also for elements without a created or title child or with an
\* empty title
C12_CreatedAndTitleDefined ==
    cur_note # NoNote =>
        /\ cur_note.created # None
        /\ IsAware(cur_note.created)
        /\ cur_note.title # None

--------------------------------------------------------------------------
(* _safe_name on its own, for short titles of safe and unsafe characters   *)

\* length of the titles given to _safe_name
MaxTitle == 4

TitleChars == {"a", "!", "_", "-", " "}

Titles == UNION {[1..n -> TitleChars] : n \in 0..MaxTitle}

\* the replacers of cli.app's --unsafe-replacer, and one that a caller of
\* the class may pass
CliReplacers == {<<>>, <<"_">>, <<"-">>}

Replacers == CliReplacers \cup {<<".">>}

\* a sink with the given max_filename_length
SinkOfLength(length, allow_spaces_in_filenames, unsafe_replacer) ==
    [FileSystemSink(Root, TitleMd, NoTemplate, allow_spaces_in_filenames,
                    unsafe_replacer, BUMP)
        EXCEPT !.max_filename_length = length]

InitSafeName ==
    /\ sink \in {SinkOfLength(length, allow, replacer) :
                    length \in {2, max_filename_length}, allow \in BOOLEAN,
                    replacer \in Replacers}
    /\ cur_note \in {SinkNote(title) : title \in Titles}
    /\ pc = "_safe_name"
    /\ converter = Converter(FALSE, TIMEZONE_UTC)
    /\ parser = EnexParser(TRUE)
    /\ disk = EmptyDisk
    /\ enex_files = NoEnexFiles
    /\ archive = <<>>
    /\ written_files = {}
    /\ sink_stats = NoSinkStats
    /\ last = NoCall
    /\ calls = 0
    /\ converter_stats = NoConverterStats
    /\ parser_stats = NoParserStats
    /\ idx = 1
    /\ cur_content = None
    /\ att = 1
    /\ raised = NoExc
    /\ stdout = <<>>
    /\ hist = NoHist

\* self._safe_name(note.title)
SafeName ==
    /\ pc = "_safe_name"
    /\ last' = [op |-> "_safe_name", text |-> cur_note.title,
                ret |-> _safe_name(sink, cur_note.title)]
    /\ pc' = "named"
    /\ UNCHANGED <<disk, written_files, sink_stats, sink, calls, converter,
                   converter_stats, parser, parser_stats, archive, enex_files, idx, cur_note,
                   cur_content, att, raised, stdout, hist>>

NextSafeName == SafeName

SpecSafeName == InitSafeName /\ [][NextSafeName]_vars

\* the allow-list of the sink
AllowList == SafeChars(sink.allow_spaces_in_filenames)

RECURSIVE Flatten(_)
Flatten(seqs) == IF Len(seqs) = 0 THEN <<>> ELSE Head(seqs) \o Flatten(Tail(seqs))

\* every run of characters outside the allow-list replaced by one replacer:
\* a character of the allow-list stays, the first character of a run
\* becomes the replacer, the other characters of the run go
RunsReplaced(text) ==
    Flatten([i \in 1..Len(text) |->
                IF text[i] \in AllowList THEN <<text[i]>>
                ELSE IF i = 1 \/ text[i - 1] \in AllowList THEN sink.unsafe_replacer
                ELSE <<>>])

\* without the leading and trailing characters of the replacer
EndsStripped(s) ==
    LET kept == {i \in 1..Len(s) : s[i] \notin Range(sink.unsafe_replacer)}
    IN  IF kept = {} THEN <<>>
        ELSE SubSeq(s, CHOOSE i \in kept : \A j \in kept : i <= j,
                       CHOOSE i \in kept : \A j \in kept : i >= j)

Truncated(s) ==
    IF Len(s) <= sink.max_filename_length THEN s
    ELSE SubSeq(s, 1, sink.max_filename_length)

\* the name is the title with runs replaced, then stripped, then truncated,
\* and is no longer than max_filename_length
NameAsDerived ==
    /\ last.ret = Truncated(EndsStripped(RunsReplaced(last.text)))
    /\ Len(last.ret) <= sink.max_filename_length

\* C13 as stated: the file-name part of a title is the title with every run
\* of characters outside the allow-list replaced by one replacement
\* character (removed when the replacer is empty), then stripped of leading
\* and trailing replacement characters, then truncated to
\* max_filename_length; it never exceeds that length and holds only
\* characters of the allow-list
C13_SafeNameOnlyAllowList ==
    last.op = "_safe_name" =>
        /\ NameAsDerived
        /\ Range(last.ret) \subseteq AllowList

\* C13 as the code has it: the same derivation and length; the name holds
\* only characters of the allow-list when the replacer does
C13_SafeNameAllowListOfReplacer ==
    last.op = "_safe_name" =>
        /\ NameAsDerived
        /\ Range(sink.unsafe_replacer) \subseteq AllowList
            => Range(last.ret) \subseteq AllowList

\* a run of two unsafe characters became one replacer, and the truncation
\* to two characters left it at the end of the name
C13_Witness ==
    /\ last.op = "_safe_name"
    /\ last.text = <<"a", "!", "!", "a">>
    /\ sink.unsafe_replacer = <<"_">>
    /\ last.ret = <<"a", "_">>

--------------------------------------------------------------------------
(* Exporting notes with lists: items in a <div> or bare, a last item that   *)
(* holds only a line break, lists nested in a <li style="list-style:       *)
(* none"> wrapper; the tags run together or have a newline after each      *)

Seps == {<<>>, <<"\n">>}

CloseOf(tag) == IF tag = "<ul>" THEN "</ul>" ELSE "</ol>"

InDiv(inner) == <<DivOpen>> \o inner \o <<DivClose>>

Li(s, inner) == <<"<li>">> \o inner \o <<LiClose>> \o s

Wrapper(s, inner) == <<LiNoBullet>> \o s \o inner \o <<LiClose>> \o s

ListOf(tag, s, items) == <<tag>> \o s \o items \o <<CloseOf(tag)>> \o s

\* <li>text</li> or <li><div>text</div></li>
Item(s, text, in_div) == Li(s, IF in_div THEN InDiv(text) ELSE text)

\* what a list may end with: no further item, <li><div><br/></div></li>,
\* <li><br/></li>
LastItem(s, kind) ==
    IF kind = "none" THEN <<>>
    ELSE IF kind = "div" THEN Li(s, InDiv(<<Br>>))
    ELSE Li(s, <<Br>>)

Bye == <<"b", "y", "e">>

\* a list of the items a and b and a last item, then nothing or a <div>
FlatBodies(kinds) ==
    {s \o ListOf(tag, s, Item(s, <<"a">>, d) \o Item(s, <<"b">>, d) \o LastItem(s, kind))
        \o after :
        tag \in ListOpens, s \in Seps, d \in BOOLEAN, kind \in kinds,
        after \in {<<>>, InDiv(Bye)}}

\* the bodies whose list ends with an item of only a line break
TrailingEmptyBodies == FlatBodies({"div", "bare"})

\* a (b (c)) d: the list of b in a wrapper after a, the list of c in a
\* wrapper after b, d after the wrapper
NestedBodies ==
    {head \o ListOf("<ul>", s,
                    Item(s, <<"a">>, FALSE)
                        \o Wrapper(s, ListOf("<ul>", s, Item(s, <<"b">>, FALSE) \o deeper))
                        \o tail) :
        s \in Seps,
        head \in {<<>>, InDiv(<<"t">>)},
        deeper \in {<<>>, Wrapper(<<>>, ListOf("<ul>", <<>>, Item(<<>>, <<"c">>, FALSE)))},
        tail \in {<<>>, Item(<<>>, <<"d">>, FALSE)}}

ListBodies == FlatBodies({"none", "div", "bare"}) \cup NestedBodies

InitLists ==
    /\ sink \in {StdOutSink, FileSystemSink(Root, TitleMd, Attachments, TRUE, <<"_">>, BUMP)}
    /\ parser = EnexParser(TRUE)
    /\ converter = Converter(FALSE, TIMEZONE_UTC)
    /\ disk = EmptyDisk
    /\ enex_files = NoEnexFiles
    /\ archive \in {<<NoteElement(<<"a">>, body, resources)>> :
                        body \in ListBodies, resources \in {<<>>, <<ResourceA>>}}
    /\ Started

SpecLists == InitLists /\ [][NextConvert]_vars

\* the lines of the content handed to the sink
FinalLines == Split(Final, "\n")

IsBlank(line) == Strip(line, Whitespace) = <<>>

\* a line that is a list marker and nothing else: "*" or "3."
IsEmptyMarker(line) ==
    LET l == Strip(line, Whitespace)
    IN  \/ l = <<"*">>
        \/ /\ Len(l) >= 2
           /\ Last(l) = "."
           /\ \A i \in 1..(Len(l) - 1) : l[i] \in Digits

\* the lines of the item with the text
ItemLines(text) ==
    {k \in 1..Len(FinalLines) :
        Strip(FinalLines[k], Whitespace) \in
            {<<"*", " ">> \o text, <<"1", ".", " ">> \o text, <<"2", ".", " ">> \o text}}

Indentation(line) == Len(line) - Len(LStrip(line, {" "}))

\* C14: a last list item that holds only a line break, in an unordered or
\* an ordered list, gives no empty bullet or number line in the final
\* output: the list ends with its last non-empty item
C14_NoTrailingEmptyItem ==
    (Exported /\ cur_note.content \in TrailingEmptyBodies) =>
        /\ ItemLines(<<"b">>) # {}
        /\ \A k \in 1..Len(FinalLines) : ~IsEmptyMarker(FinalLines[k])

\* the child is on a line after the parent, one level (two spaces) deeper,
\* and no blank line lies between the two
ChildBelow(parent, child) ==
    /\ Cardinality(ItemLines(parent)) = 1
    /\ Cardinality(ItemLines(child)) = 1
    /\ \E p \in ItemLines(parent), c \in ItemLines(child) :
          /\ p < c
          /\ Indentation(FinalLines[c]) = Indentation(FinalLines[p]) + 2
          /\ \A k \in (p + 1)..(c - 1) : ~IsBlank(FinalLines[k])

HasItem(text) == \E i \in 1..Len(cur_note.content) : cur_note.content[i] = text

\* C15: lists nested with the <li style="list-style: none"> wrapper give
\* bullets indented one level more for each level of nesting, with no
\* blank line between a bullet and the first line of its children
C15_NestedListIndentation ==
    (Exported /\ cur_note.content \in NestedBodies) =>
        /\ ChildBelow(<<"a">>, <<"b">>)
        /\ HasItem("c") => ChildBelow(<<"b">>, <<"c">>)

--------------------------------------------------------------------------
(* Converting with path templates of the field {enex} and of the field     *)
(* {enex_unnumbered}                                                       *)

\* "{enex}/{title}.md", "{enex}/attachments"
EnexTitleMd == << <<Field("enex")>>, <<Field("title"), Lit(<<".", "m", "d">>)>> >>

EnexAttachments == << <<Field("enex")>>, <<Lit(<<"a", "t", "t">>)>> >>

\* "{enex_unnumbered}/{title}.md", "{enex_unnumbered}/attachments"
UnnumberedTitleMd ==
    << <<Field("enex_unnumbered")>>, <<Field("title"), Lit(<<".", "m", "d">>)>> >>

UnnumberedAttachments == << <<Field("enex_unnumbered")>>, <<Lit(<<"a", "t", "t">>)>> >>

\* two notes of one title, one with an attachment
SameTitleElements ==
    {NoteElement(<<"a">>, <<DivOpen, "l", "o", DivClose>>, <<>>),
     NoteElement(<<"a">>, EnMedia(<<"a", "1">>), <<ResourceA>>)}

InitTemplates ==
    /\ sink \in {FileSystemSink(Root, EnexTitleMd, EnexAttachments, FALSE, <<"_">>, BUMP),
                 FileSystemSink(Root, UnnumberedTitleMd, UnnumberedAttachments, FALSE,
                                <<"_">>, BUMP)}
    /\ parser = EnexParser(TRUE)
    /\ converter = Converter(FALSE, TIMEZONE_UTC)
    /\ disk = EmptyDisk
    /\ enex_files = NoEnexFiles
    /\ archive \in UNION {[1..n -> SameTitleElements] : n \in 1..MaxNotes}
    /\ Started

SpecTemplates == InitTemplates /\ [][NextConvert]_vars

\* a name without a trailing "-<digits>"
Unnumbered(name) ==
    LET stem == RStrip(name, Digits)
    IN  IF Len(stem) < Len(name) /\ Len(stem) > 0 /\ Last(stem) = "-"
        THEN Front(stem) ELSE name

\* C16: path templates accept the field {enex_unnumbered}, the name of the
\* source archive without a trailing numbering suffix: the notes are
\* written under that folder, the second note of a title as <title>_1.md,
\* the attachments in one folder
C16_EnexUnnumberedAccepted ==
    sink.note_path_template = UnnumberedTitleMd =>
        /\ raised # "KeyError"
        /\ last.op = "store_note" =>
            /\ last.exc = NoExc
            /\ PathParent(last.path)
                 = Root \o <<Unnumbered(PathStem(last.note.source_enex))>>
            /\ PathName(last.path) \in
                 {<<"a", ".", "m", "d">>, <<"a", "_", "1", ".", "m", "d">>}
        /\ last.op = "store_attachment" =>
            /\ last.exc = NoExc
            /\ PathParent(last.path)
                 = Root \o <<Unnumbered(PathStem(last.note.source_enex)), <<"a", "t", "t">> >>

--------------------------------------------------------------------------
(* Constructing the Converter from keyword arguments, then _format_header  *)

\* the parameters of Converter.__init__
ConverterParameters == {"front_matter", "timezone"}

\* Converter(front_matter=...), Converter(front_matter=..., add_origin=...)
ConverterKeywords ==
    {[front_matter |-> f] : f \in BOOLEAN}
        \cup {[front_matter |-> f, add_origin |-> a] : f \in BOOLEAN, a \in BOOLEAN}

NoConverter == [constructed |-> FALSE]

InitOrigin ==
    /\ converter = NoConverter
    /\ cur_note \in {parse_note_element(TRUE, e, EnexPath).value : e \in HeaderElements}
    /\ pc = "construct"
    /\ sink = StdOutSink
    /\ parser = EnexParser(TRUE)
    /\ disk = EmptyDisk
    /\ enex_files = NoEnexFiles
    /\ archive = <<>>
    /\ written_files = {}
    /\ sink_stats = NoSinkStats
    /\ last = NoCall
    /\ calls = 0
    /\ converter_stats = NoConverterStats
    /\ parser_stats = NoParserStats
    /\ idx = 1
    /\ cur_content = None
    /\ att = 1
    /\ raised = NoExc
    /\ stdout = <<>>
    /\ hist = NoHist

\* Converter(**kwargs): a keyword that is no parameter of __init__ raises
\* TypeError (unexpected keyword argument)
ConstructConverter(kwargs) ==
    /\ pc = "construct"
    /\ last' = [op |-> "Converter", kwargs |-> kwargs]
    /\ IF DOMAIN kwargs \subseteq ConverterParameters
       THEN /\ converter' = Converter(kwargs.front_matter, TIMEZONE_UTC)
            /\ pc' = "_format_header"
            /\ UNCHANGED raised
       ELSE /\ Raise("TypeError")
            /\ UNCHANGED converter
    /\ UNCHANGED <<disk, written_files, sink_stats, sink, calls, converter_stats,
                   parser, parser_stats, archive, enex_files, idx, cur_note, cur_content, att,
                   stdout, hist>>

NextOrigin ==
    \/ \E kwargs \in ConverterKeywords : ConstructConverter(kwargs)
    \/ FormatHeader

SpecOrigin == InitOrigin /\ [][NextOrigin]_vars

\* "origin: Evernote notebook '<stem of the source archive>'"
OriginLine ==
    <<"o", "r", "i", "g", "i", "n", ":", " ">>
        \o <<"E", "v", "e", "r", "n", "o", "t", "e", " ">>
        \o <<"n", "o", "t", "e", "b", "o", "o", "k", " ", "'">>
        \o PathStem(cur_note.source_enex) \o <<"'">>

\* C17: Converter accepts add_origin; with it and front_matter set, the
\* front matter of every note holds, after the updated line, the line
\* "origin: Evernote notebook '<source archive stem>'"
C17_OriginInFrontMatter ==
    (/\ last.op = "Converter"
     /\ "add_origin" \in DOMAIN last.kwargs
     /\ last.kwargs.add_origin /\ last.kwargs.front_matter) =>
        /\ raised # "TypeError"
        /\ pc = "formatted" =>
            \E k \in 2..Len(hist.handed) :
                /\ hist.handed[k] = OriginLine
                /\ k < Len(hist.handed) /\ hist.handed[k + 1] = <<"-", "-", "-">>
                /\ cur_note.updated # None =>
                     StartsWith(hist.handed[k - 1], KeyUpdated \o <<":", " ">>)

--------------------------------------------------------------------------
(* FileSystemSink.__init__: the path templates it settles on                *)

\* "{title}", "{title}.txt", "{title}.md.bak", "{enex}/n.md"
NoteTemplates ==
    {TitleMd, EnexTitleMd,
     << <<Field("title")>> >>,
     << <<Field("title"), Lit(<<".", "t", "x", "t">>)>> >>,
     << <<Field("title"), Lit(<<".", "m", "d", ".", "b", "a", "k">>)>> >>,
     << <<Field("enex")>>, <<Lit(<<"n", ".", "m", "d">>)>> >>}

AttachmentsTemplates == {Attachments, EnexAttachments, << <<Field("title")>> >>}

InitResolve ==
    /\ sink = NoSink
    /\ disk = EmptyDisk
    /\ written_files = {}
    /\ sink_stats = NoSinkStats
    /\ last = NoCall
    /\ calls = 0
    /\ Idle

\* FileSystemSink(note_path_template=..., attachments_path_template=...,
\* allow_spaces_in_filenames=..., on_existing_file=...), NoTemplate for an
\* argument left out
ResolveTemplates(note_path_template, attachments_path_template, allow_spaces, on_existing_file) ==
    /\ sink = NoSink
    /\ sink' = FileSystemSink(Root, note_path_template, attachments_path_template,
                              allow_spaces, <<"_">>, on_existing_file)
    /\ last' = [op |-> "__init__", note_path_template |-> note_path_template,
                attachments_path_template |-> attachments_path_template]
    /\ UNCHANGED <<disk, written_files, sink_stats, calls, convVars>>

NextResolve ==
    \E n \in NoteTemplates \cup {NoTemplate}, a \in AttachmentsTemplates \cup {NoTemplate},
       allow_spaces \in BOOLEAN, on_existing_file \in ON_EXISTING_FILE :
        ResolveTemplates(n, a, allow_spaces, on_existing_file)

SpecResolve == InitResolve /\ [][NextResolve]_vars

\* a name with a trailing ".md" replaced by "_attachments", or with
\* "_attachments" appended when it has no such ending
AttachmentsName(name) ==
    (IF Len(name) >= 3 /\ SubSeq(name, Len(name) - 2, Len(name)) = <<".", "m", "d">>
     THEN SubSeq(name, 1, Len(name) - 3) ELSE name)
        \o <<"_", "a", "t", "t", "a", "c", "h", "m", "e", "n", "t", "s">>

\* the attachments template gives, for the note, the path the note template
\* gives with its name changed to the attachments name
GuessedFor(note) ==
    LET path == Format(sink, sink.note_path_template, note)
    IN  Format(sink, sink.attachments_path_template, note)
            = PathWithName(path, AttachmentsName(PathName(path)))

\* C18: with no template given both defaults are used; with a note
\* template and no attachments template, the attachments template is the
\* note template with a trailing ".md" replaced by "_attachments" (or with
\* "_attachments" appended); an attachments template that the caller gives
\* is always used as given
C18_TemplatesResolved ==
    last.op = "__init__" =>
        /\ (last.note_path_template = NoTemplate
                /\ last.attachments_path_template = NoTemplate) =>
            /\ sink.note_path_template = DEFAULT_NOTE_PATH_TEMPLATE
            /\ sink.attachments_path_template = DEFAULT_ATTACHMENTS_PATH_TEMPLATE
        /\ last.note_path_template # NoTemplate =>
            sink.note_path_template = last.note_path_template
        /\ (last.note_path_template # NoTemplate
                /\ last.attachments_path_template = NoTemplate) =>
            \A note \in SinkNotes : GuessedFor(note)
        /\ last.attachments_path_template # NoTemplate =>
            sink.attachments_path_template = last.attachments_path_template

--------------------------------------------------------------------------
(* cli.app: convert is called for one ENEX file after the other, on one    *)
(* sink, one parser and one converter                                      *)

\* number of ENEX files given to cli.app
MaxEnexFiles == 2

\* a note without attachments, notes with two attachments
CliElements ==
    [x |-> NoteElement(<<"a">>, <<DivOpen, "l", "o", DivClose>>, <<>>),
     y |-> NoteElement(<<"b">>, EnMedia(<<"a", "1">>), <<ResourceA, ResourceB>>),
     z |-> NoteElement(<<"a">>, EnMedia(<<"a", "1">>), <<ResourceA2, ResourceA>>)]

\* the ENEX files: of no note, of one note, of two notes
CliArchives ==
    {<<>>, <<CliElements.x>>, <<CliElements.y>>, <<CliElements.x, CliElements.y>>,
     <<CliElements.y, CliElements.z>>, <<CliElements.z, CliElements.x>>}

InitCli ==
    /\ sink \in {StdOutSink, FileSystemSink(Root, TitleMd, Attachments, TRUE, <<"_">>, BUMP)}
    /\ parser = EnexParser(TRUE)
    /\ converter = Converter(FALSE, TIMEZONE_UTC)
    /\ disk = EmptyDisk
    /\ enex_files \in {[paths |-> paths, next |-> 1] :
                          paths \in UNION {[1..n -> CliArchives] : n \in 1..MaxEnexFiles}}
    /\ archive = <<>>
    /\ written_files = {}
    /\ sink_stats = NoSinkStats
    /\ last = NoCall
    /\ calls = 0
    /\ converter_stats = NoConverterStats
    /\ parser_stats = NoParserStats
    /\ idx = 1
    /\ pc = "cli"
    /\ cur_note = NoNote
    /\ cur_content = None
    /\ att = 1
    /\ raised = NoExc
    /\ stdout = <<>>
    /\ hist = NoHist

\* the files taken last first
LastEnexFile(files) == files.paths[Len(files.paths) - files.next + 1]

\* for enex_path in collect_enex_paths(enex_sources): the file taken next
NextEnexFile(files) == files.paths[files.next]

\* converter.convert(enex=enex_path, sink=sink, parser=parser)
Convert ==
    /\ pc \in {"cli", "returned"}
    /\ enex_files.next <= Len(enex_files.paths)
    /\ archive' = NextEnexFile(enex_files)
    /\ enex_files' = [enex_files EXCEPT !.next = @ + 1]
    /\ idx' = 1
    /\ pc' = "convert"
    /\ UNCHANGED <<sinkVars, converter, converter_stats, parser, parser_stats, cur_note,
                   cur_content, att, raised, stdout, hist>>

NextCli ==
    \/ Convert
    \/ NextConvert

SpecCli == InitCli /\ [][NextCli]_vars

\* the notes of the ENEX files, in the order of the files and of the notes
\* in each file
AllNotes == Flatten(enex_files.paths)

\* the number of notes whose store_note has returned
NotesDone == converter_stats["notes exported"]

\* the note after the notes done, as the parser gives it
NoteDue == parse_note_element(parser.handle_attachments, AllNotes[NotesDone + 1], EnexPath).value

\* the path is that of the file name in its folder, or that path with a
\* counter
NamedAfter(path, file_name) ==
    path \in {PathWithName(path, file_name)}
                \cup {Suffixed(PathWithName(path, file_name), k) : k \in 1..(2 * MaxEnexFiles)}

\* a call of the sink is for the note due; store_attachment is for the
\* attachment after those stored for the note, store_note comes when all
\* its attachments are stored; a note is counted after its store_note
OrderedStep ==
    /\ calls' # calls =>
        /\ NotesDone < Len(AllNotes)
        /\ last'.note = NoteDue
        /\ last'.op = "store_attachment" =>
            /\ Len(hist.refs) < Len(NoteDue.attachments)
            /\ NamedAfter(last'.path, NoteDue.attachments[Len(hist.refs) + 1].file_name)
        /\ last'.op = "store_note" => Len(hist.refs) = Len(NoteDue.attachments)
    /\ stdout' # stdout =>
        /\ NotesDone < Len(AllNotes)
        /\ SubSeq(stdout', Len(stdout) + 1, Len(stdout) + 2)
             = <<NewNote, <<"#", " ">> \o NoteDue.title>>
    /\ converter_stats' # converter_stats =>
        /\ converter_stats'["notes exported"] = NotesDone + 1
        /\ pc = "count"

\* C19: processing is sequential and ordered: the store_note calls come in
\* the order of the notes in the archive, and of the archives given; the
\* store_attachment calls of a note in the order of its attachments, all
\* of them after the store_note of the note before and before the
\* store_note of the note
C19_SequentialOrder == [][OrderedStep]_vars

\* two ENEX files of two notes each are converted: four notes and six
\* attachments stored
C19_Witness ==
    /\ pc = "returned"
    /\ enex_files.next = 3
    /\ IsFileSystemSink(sink)
    /\ sink_stats["notes written"] = 4
    /\ sink_stats["attachments written"] = 6

--------------------------------------------------------------------------
(* export_note called for one note after the other on one Converter and    *)
(* one FileSystemSink, the caller going on after an exception; the root    *)
(* holds files and folders from before                                     *)

\* number of export_note calls
MaxExports == 3

\* notes of one title, without and with an attachment
CounterElements ==
    {NoteElement(<<"a">>, <<DivOpen, "l", "o", DivClose>>, <<>>),
     NoteElement(<<"a">>, EnMedia(<<"a", "1">>), <<ResourceA>>)}

\* what is at the paths of the notes and of the attachment before the run
CounterDisks ==
    [{Root \o << <<"a", ".", "m", "d">> >>,
      Root \o << <<"a", "_", "1", ".", "m", "d">> >>,
      Root \o << <<"a", "t", "t">>, FPng >>} -> {"none", "file", "dir"}]

InitCounters ==
    /\ sink \in {FileSystemSink(Root, TitleMd, Attachments, TRUE, <<"_">>, on_existing_file) :
                    on_existing_file \in ON_EXISTING_FILE}
    /\ parser = EnexParser(TRUE)
    /\ converter = Converter(FALSE, TIMEZONE_UTC)
    /\ disk \in {PreDisk(d) : d \in CounterDisks}
    /\ enex_files = NoEnexFiles
    /\ archive \in [1..MaxExports -> CounterElements]
    /\ Started

\* export_note raised: the caller catches the exception and calls
\* export_note for the next note
Caught ==
    /\ pc = "raised"
    /\ pc' = "convert"
    /\ raised' = NoExc
    /\ UNCHANGED <<sinkVars, converter, converter_stats, parser, parser_stats, archive,
                   enex_files, idx, cur_note, cur_content, att, stdout, hist>>

NextCounters ==
    \/ Caught
    \/ NextConvert

SpecCounters == InitCounters /\ [][NextCounters]_vars

\* no export_note call is under way
BetweenExports == pc \in {"convert", "raised", "returned"}

\* the counters and written_files after a step are at least what they were
OnlyGrow ==
    /\ written_files \subseteq written_files'
    /\ \A key \in DOMAIN sink_stats : sink_stats[key] <= sink_stats'[key]
    /\ \A key \in DOMAIN converter_stats : converter_stats[key] <= converter_stats'[key]

\* every note written is counted as exported, every path of written_files
\* is counted as a note or an attachment written
CountersAgree ==
    /\ converter_stats["notes exported"] = sink_stats["notes written"]
    /\ Cardinality(written_files)
         = sink_stats["notes written"] + sink_stats["attachments written"]

\* C20: after any sequence of export_note calls, completed or aborted by an
\* exception, on one Converter with one FileSystemSink, the counters and
\* written_files have only grown, 'notes exported' equals 'notes written',
\* and the size of written_files is 'notes written' plus 'attachments
\* written'
C20_CountersAndWrittenFiles == [][OnlyGrow /\ (BetweenExports' => CountersAgree')]_vars

--------------------------------------------------------------------------
(* The transformations of export_note one at a time, each applied to a     *)
(* text and then to its own result                                         *)

\* number of elements of a text given to one transformation
MaxText == 3

\* the texts of up to n elements of an alphabet
RECURSIVE TextsOver(_, _)
TextsOver(alphabet, n) ==
    IF n = 0 THEN {<<>>}
    ELSE TextsOver(alphabet, n - 1)
            \cup {Append(t, c) : t \in TextsOver(alphabet, n - 1), c \in alphabet}

\* a converter with a text at hand, before the transformation "at"
TextGiven(texts, at) ==
    /\ cur_content \in texts
    /\ pc = at
    /\ sink = StdOutSink
    /\ converter = Converter(FALSE, TIMEZONE_UTC)
    /\ parser = EnexParser(TRUE)
    /\ disk = EmptyDisk
    /\ enex_files = NoEnexFiles
    /\ archive = <<>>
    /\ written_files = {}
    /\ sink_stats = NoSinkStats
    /\ last = NoCall
    /\ calls = 0
    /\ converter_stats = NoConverterStats
    /\ parser_stats = NoParserStats
    /\ idx = 1
    /\ cur_note = NoNote
    /\ att = 1
    /\ raised = NoExc
    /\ stdout = <<>>
    /\ hist = NoHist

\* content = self.<name>(content), at most twice
Apply(name, result) ==
    /\ pc = name
    /\ calls < 2
    /\ last' = [op |-> name, text |-> cur_content, ret |-> result,
                given |-> IF calls = 0 THEN cur_content ELSE last.given]
    /\ cur_content' = result
    /\ calls' = calls + 1
    /\ UNCHANGED <<disk, written_files, sink_stats, sink, converter, converter_stats,
                   parser, parser_stats, archive, enex_files, idx, pc, cur_note, att,
                   raised, stdout, hist>>

\* the second call did not change the text
SecondChangesNothing(name) == (last.op = name /\ calls = 2) => last.ret = last.text

--------------------------------------------------------------------------
(* _handle_tasks on its own *)

TaskAtoms == {TodoChecked, TodoUnchecked, TodoCheckedSpace, TodoUncheckedSpace}

InitTasks == TextGiven(TextsOver(TaskAtoms \cup {"a"}, MaxText), "_handle_tasks")

ApplyHandleTasks == Apply("_handle_tasks", _handle_tasks(cur_content))

NextTasks == ApplyHandleTasks

SpecTasks == InitTasks /\ [][NextTasks]_vars

\* C21: _handle_tasks applied to its own output gives the same text as
\* applied once, for text with checked or unchecked task indicators in
\* the '/>' or the ' />' form
C21_TasksIdempotent == SecondChangesNothing("_handle_tasks")

--------------------------------------------------------------------------
(* _post_processor_code_newlines on a line between two lines of text *)

\* number of leading spaces of the line
MaxIndent == 6

RECURSIVE Spaces(_)
Spaces(n) == IF n = 0 THEN <<>> ELSE <<" ">> \o Spaces(n - 1)

\* what follows the leading spaces: text, bullets, a tab
LineTails ==
    {<<"x">>, <<"*">>, <<"*", " ", "x">>, <<"x", "*">>, <<"\t", "*">>, <<"\t", "x">>,
     <<"x", " ">>}

IndentedTexts ==
    {first \o <<"\n">> \o Spaces(n) \o tail \o <<"\n", "b">> :
        first \in {<<"a">>, <<"*", " ", "a">>}, n \in 0..MaxIndent, tail \in LineTails}

InitIndent == TextGiven(IndentedTexts, "_post_processor_code_newlines")

ApplyPostProcessor ==
    Apply("_post_processor_code_newlines", _post_processor_code_newlines(cur_content))

NextIndent == ApplyPostProcessor

SpecIndent == InitIndent /\ [][NextIndent]_vars

\* the line in the middle, before and after the call
LineBefore == Split(last.text, "\n")[2]

LineAfter == Split(last.ret, "\n")[2]

\* the first character after the leading spaces is '*'
StarAfterSpaces(line) ==
    Len(LStrip(line, {" "})) > 0 /\ LStrip(line, {" "})[1] = "*"

\* C22 as stated: four leading spaces are stripped only from lines that
\* begin with exactly four leading spaces and whose first non-space
\* character is not '*'; lines with another number of leading spaces and
\* bullet lines keep their indentation
C22_StripsExactlyFour ==
    last.op = "_post_processor_code_newlines" =>
        /\ Len(Split(last.ret, "\n")) = 3
        /\ Indentation(LineAfter)
             = IF Indentation(LineBefore) = 4 /\ ~StarAfterSpaces(LineBefore)
               THEN 0 ELSE Indentation(LineBefore)

\* C22 as the code has it: four leading spaces are stripped from lines that
\* begin with at least four spaces and whose first character after all
\* leading whitespace is not '*'; lines with fewer leading spaces and
\* bullet lines keep their indentation
C22_StripsFourOfAtLeastFour ==
    last.op = "_post_processor_code_newlines" =>
        /\ Len(Split(last.ret, "\n")) = 3
        /\ Indentation(LineAfter)
             = IF Indentation(LineBefore) >= 4 /\ ~IsBullet(LineBefore)
               THEN Indentation(LineBefore) - 4 ELSE Indentation(LineBefore)
        /\ LStrip(LineAfter, {" "}) = RStrip(LStrip(LineBefore, {" "}), Whitespace)

\* a line of six leading spaces came out with two
C22_Witness ==
    /\ last.op = "_post_processor_code_newlines"
    /\ Indentation(LineBefore) = 6
    /\ Indentation(LineAfter) = 2
    /\ ~IsBullet(LineBefore)

--------------------------------------------------------------------------
(* _handle_lists on its own *)

\* opening tags of lists that carry an attribute, each an atom
UlStyled == "<ul style=\"padding: 0\">"

OlStyled == "<ol start=\"2\">"

ListOpeningTags == {"<ul>", "<ol>", UlStyled, OlStyled}

InitListBreaks ==
    TextGiven(TextsOver(ListOpeningTags \cup {"<li>", "</ul>", "a"}, MaxText), "_handle_lists")

ApplyHandleLists == Apply("_handle_lists", _handle_lists(cur_content))

NextListBreaks == ApplyHandleLists

SpecListBreaks == InitListBreaks /\ [][NextListBreaks]_vars

\* the text with a line break element before every opening tag of a list
BreakBeforeLists(text) ==
    Flatten([i \in 1..Len(text) |->
                IF text[i] \in ListOpeningTags THEN <<Br, text[i]>> ELSE <<text[i]>>])

\* C23: _handle_lists puts a line break element immediately before every
\* opening tag of an unordered or ordered list, also before opening tags
\* that carry attributes, and changes nothing else
C23_BreakBeforeEveryList ==
    last.op = "_handle_lists" => last.ret = BreakBeforeLists(last.text)

--------------------------------------------------------------------------
(* _handle_strongs_emphases on its own *)

\* the line-break element spelled without the space, an atom
BrTight == "<br/>"

LineBreaks == {Br, BrTight}

\* a piece of a body: a character outside spans, or one span
SpanPieces ==
    {<<"a">>}
        \cup {<<open>> \o content \o <<SpanClose>> :
                 open \in SpanOpens, content \in {<<>>, <<"x">>, <<Br>>, <<BrTight>>}}

\* the bodies of up to n pieces, each as the sequence of its pieces
RECURSIVE PieceSeqs(_)
PieceSeqs(n) ==
    IF n = 0 THEN {<<>>}
    ELSE PieceSeqs(n - 1) \cup {Append(b, p) : b \in PieceSeqs(n - 1), p \in SpanPieces}

InitSpans ==
    TextGiven({Flatten(pieces) : pieces \in PieceSeqs(2)}, "_handle_strongs_emphases")

ApplyHandleStrongsEmphases ==
    Apply("_handle_strongs_emphases", _handle_strongs_emphases(cur_content))

NextSpans == ApplyHandleStrongsEmphases

SpecSpans == InitSpans /\ [][NextSpans]_vars

\* the inner text of a span between marks, in a span without style
Emphasised(piece, mark) ==
    <<SpanPlain>> \o mark \o SubSeq(piece, 2, Len(piece) - 1) \o mark \o <<SpanClose>>

\* what a piece is to become
Normalised(piece) ==
    IF piece[1] \notin SpanOpens \ {SpanPlain} THEN piece
    ELSE IF Len(piece) = 3 /\ piece[2] \in LineBreaks THEN <<Br>>
    ELSE IF piece[1] = SpanBoldItalic THEN Emphasised(piece, <<"*", "*", "*">>)
    ELSE IF piece[1] = SpanBold THEN Emphasised(piece, <<"*", "*">>)
    ELSE IF piece[1] = SpanItalic THEN Emphasised(piece, <<"*">>)
    ELSE piece

\* C24: each styled span is classified on its own: italic and bold
\* together wraps the inner text in '***', bold only in '**', italic only
\* in '*'; a span whose whole content is one line-break element, in any
\* self-closing spelling, becomes a bare line break; any other span is left
\* as it was, and so is the text outside spans
C24_SpansClassified ==
    last.op = "_handle_strongs_emphases" =>
        \A pieces \in PieceSeqs(2) :
            last.text = Flatten(pieces)
                => last.ret = Flatten([k \in 1..Len(pieces) |-> Normalised(pieces[k])])

--------------------------------------------------------------------------
(* _handle_tables on its own *)

InitTables ==
    TextGiven(TextsOver({TableOpen, TableClose, DivOpen, DivClose, "\n", "a"}, MaxText + 1),
              "_handle_tables")

ApplyHandleTables == Apply("_handle_tables", _handle_tables(cur_content))

NextTables == ApplyHandleTables

SpecTables == InitTables /\ [][NextTables]_vars

\* the text from index i on, without the <div> and </div> tags inside each
\* complete table element: from an opening tag to the first closing tag
\* after it, on whatever line that is
RECURSIVE TablesCleaned(_, _)
TablesCleaned(text, i) ==
    IF i > Len(text) THEN <<>>
    ELSE LET e == IndexFrom(text, i + 1, {TableClose})
         IN  IF text[i] = TableOpen /\ e <= Len(text)
             THEN SelectSeq(SubSeq(text, i, e), LAMBDA c : c \notin {DivOpen, DivClose})
                      \o TablesCleaned(text, e + 1)
             ELSE <<text[i]>> \o TablesCleaned(text, i + 1)

\* C25: _handle_tables removes the <div> and </div> tags inside every
\* complete table element of the body, from its opening tag to its
\* closing tag, also when the table spans several lines, and leaves every
\* character outside table elements as it was
C25_TableDivsRemoved ==
    last.op = "_handle_tables" => last.ret = TablesCleaned(last.text, 1)

--------------------------------------------------------------------------
(* _handle_codeblocks on its own *)

\* what a source-line child holds: nothing, text, text in curly quotes, a
\* line break, text with a <div> inside
LineContents ==
    {<<>>, <<"x">>, <<LeftCurlyQuote, "y", RightCurlyQuote>>, <<Br>>,
     <<"a", DivOpen, "b", DivClose>>}

\* the children of a container, each as what it holds
RECURSIVE ChildSeqs(_)
ChildSeqs(n) ==
    IF n = 0 THEN {<<>>}
    ELSE ChildSeqs(n - 1) \cup {Append(s, c) : s \in ChildSeqs(n - 1), c \in LineContents}

\* the container with one <div> per child
Container(children) ==
    <<CodeblockOpen>>
        \o Flatten([k \in 1..Len(children) |-> <<DivOpen>> \o children[k] \o <<DivClose>>])
        \o <<DivClose>>

Around == {<<>>, <<"o">>}

InitCodeblocks ==
    TextGiven({before \o Container(children) \o after :
                  before \in Around, after \in Around, children \in ChildSeqs(2)},
              "_handle_codeblocks")

ApplyHandleCodeblocks == Apply("_handle_codeblocks", _handle_codeblocks(cur_content))

NextCodeblocks == ApplyHandleCodeblocks

SpecCodeblocks == InitCodeblocks /\ [][NextCodeblocks]_vars

\* the text of a child with straight quotes
StraightQuoted(child) ==
    [k \in 1..Len(TextOf(child, 1)) |->
        IF TextOf(child, 1)[k] \in {LeftCurlyQuote, RightCurlyQuote} THEN Quote
        ELSE TextOf(child, 1)[k]]

\* the begin sentinel, the text of each child once and a newline after
\* each, the end sentinel
SentinelsAround(children) ==
    <<PreOpen, CodeBegin, "\n">>
        \o Flatten([k \in 1..Len(children) |-> StraightQuoted(children[k]) \o <<"\n">>])
        \o <<CodeEnd, PreClose>>

\* C26: for every code-block container the text of the preformatted
\* element that replaces it is the begin sentinel, the text of each
\* source-line child once, in document order, each followed by a newline,
\* then the end sentinel, curly double quotes made straight; a container
\* without children gives the two sentinel lines
C26_CodeblockLines ==
    last.op = "_handle_codeblocks" =>
        \A before \in Around, after \in Around, children \in ChildSeqs(2) :
            last.text = before \o Container(children) \o after
                => last.ret = before \o SentinelsAround(children) \o after

--------------------------------------------------------------------------
(* the end of _post_processor_code_newlines on its own: runs of newlines   *)
(* collapsed, the text stripped                                            *)

InitCollapse == TextGiven(TextsOver({"\n", " ", "a"}, MaxText + 3), "collapse")

ApplyCollapseAndStrip == Apply("collapse", CollapseAndStrip(cur_content))

NextCollapse == ApplyCollapseAndStrip

SpecCollapse == InitCollapse /\ [][NextCollapse]_vars

\* C27: collapsing the runs of three or more newlines to two and trimming,
\* run twice, gives what it gives run once, for every text
C27_CollapseIdempotent == SecondChangesNothing("collapse")

\* a text with a run of three newlines between two letters was collapsed by
\* the first run and left alone by the second
C27_Witness ==
    /\ last.op = "collapse"
    /\ calls = 2
    /\ \E i \in 1..(Len(last.given) - 4) :
           SubSeq(last.given, i, i + 4) = <<"a", "\n", "\n", "\n", "a">>
    /\ last.text # last.given
    /\ last.ret = last.text

--------------------------------------------------------------------------
(* export_note with attachments, for note and attachment folders side by   *)
(* side, one above the other and apart, over files from before             *)

AMd == <<"a", ".", "m", "d">>

A1Md == <<"a", "_", "1", ".", "m", "d">>

Att == <<"a", "t", "t">>

\* "n/{title}.md"
InFolderTitleMd == << <<Lit(<<"n">>)>>, <<Field("title"), Lit(<<".", "m", "d">>)>> >>

\* "att/{title}"
AttachmentsOfTitle == << <<Lit(Att)>>, <<Field("title")>> >>

\* the templates of the sink with the paths they give for a note "a" and
\* an attachment f.png
Layouts ==
    {[note |-> TitleMd, attachments |-> Attachments,
      paths |-> {Root \o <<AMd>>, Root \o <<A1Md>>, Root \o <<Att, FPng>>}],
     [note |-> InFolderTitleMd, attachments |-> Attachments,
      paths |-> {Root \o << <<"n">>, AMd>>, Root \o << <<"n">>, A1Md>>,
                 Root \o <<Att, FPng>>}],
     [note |-> InFolderTitleMd, attachments |-> AttachmentsOfTitle,
      paths |-> {Root \o << <<"n">>, AMd>>, Root \o << <<"n">>, A1Md>>,
                 Root \o <<Att, <<"a">>, FPng>>}]}

\* other bytes under the name f.png
ResourceF2 == Resource(<<"Yg==">>, FPng, ImagePng)

RefElements ==
    {NoteElement(<<"a">>, EnMedia(<<"a", "1">>), <<ResourceA, ResourceF2>>),
     NoteElement(<<"a">>, EnMedia(<<"a", "1">>), <<ResourceA2>>)}

InitRefs ==
    /\ \E layout \in Layouts :
        /\ sink \in {FileSystemSink(Root, layout.note, layout.attachments, TRUE, <<"_">>,
                                    on_existing_file) :
                        on_existing_file \in ON_EXISTING_FILE}
        /\ disk \in {PreDisk(d) : d \in [layout.paths -> {"none", "file"}]}
    /\ parser = EnexParser(TRUE)
    /\ converter = Converter(FALSE, TIMEZONE_UTC)
    /\ enex_files = NoEnexFiles
    /\ archive \in UNION {[1..n -> RefElements] : n \in 1..MaxNotes}
    /\ Started

SpecRefs == InitRefs /\ [][NextConvert]_vars

\* the path a relative path denotes from a folder
RECURSIVE Resolve(_, _)
Resolve(folder, rel) ==
    IF Len(rel) = 0 THEN folder
    ELSE IF Head(rel) = <<".", ".">> THEN Resolve(PathParent(folder), Tail(rel))
    ELSE IF Head(rel) = <<".">> THEN Resolve(folder, Tail(rel))
    ELSE Resolve(Append(folder, Head(rel)), Tail(rel))

\* store_note has written the note of the attachments stored last
NoteWritten ==
    /\ IsFileSystemSink(sink)
    /\ pc = "count"
    /\ last.op = "store_note"
    /\ last.exc = NoExc

\* C28: the relative reference store_attachment returned for an attachment,
\* resolved against the folder of the Markdown file store_note then writes
\* for the same note, denotes the attachment file written, whatever files
\* exist on disk or were written earlier in the run, also when the name of
\* the note file is bumped
C28_ReferenceDenotesAttachment ==
    NoteWritten =>
        /\ Len(hist.refs) = Len(cur_note.attachments)
        /\ \A k \in 1..Len(hist.refs) :
            /\ IsFile(disk, Resolve(PathParent(last.path), hist.refs[k]))
            /\ disk[Resolve(PathParent(last.path), hist.refs[k])].data
                 = cur_note.attachments[k].data

\* the note file was bumped to a_1.md in the folder n, and its two
\* attachments of one name are referenced upwards, the second one bumped
C28_Witness ==
    /\ NoteWritten
    /\ last.path = Root \o << <<"n">>, A1Md>>
    /\ Len(hist.refs) = 2
    /\ hist.refs[1][1] = <<".", ".">>
    /\ PathName(hist.refs[2]) = <<"f", "_", "1", ".", "p", "n", "g">>

--------------------------------------------------------------------------
(* the content export_note hands to the sink *)

\* the content as _post_processor_code_newlines returned it, and as handed
\* to store_note
Rendered == hist.rendered

Handed == Last(hist.handed)

\* store_note has been called for the note
NoteHanded == pc = "count" /\ Len(hist.handed) > 0

\* the text holds n newlines in a row
HasNewlineRun(text, n) ==
    \E i \in 1..(Len(text) - n + 1) : \A j \in i..(i + n - 1) : text[j] = "\n"

\* the text begins or ends with an empty line
BlankAtEnds(text) == Len(text) > 0 /\ (text[1] = "\n" \/ text[Len(text)] = "\n")

--------------------------------------------------------------------------
(* export_note of one note under the fail policy: the file of a note "a"   *)
(* exists from before, that of a note "b" does not                         *)

FailElements ==
    {NoteElement(title, EnMedia(<<"a", "1">>), resources) :
        title \in {<<"a">>, <<"b">>},
        resources \in {<<>>, <<ResourceA>>, <<ResourceA, ResourceF2>>}}

\* the note path for "a" is a file; the other paths are there or not
InitFail ==
    /\ \E layout \in Layouts :
        /\ sink = FileSystemSink(Root, layout.note, layout.attachments, TRUE, <<"_">>, FAIL)
        /\ disk \in {PreDisk(d) : d \in {f \in [layout.paths -> {"none", "file"}] :
                                            \A p \in layout.paths :
                                                PathName(p) = AMd => f[p] = "file"}}
    /\ parser = EnexParser(TRUE)
    /\ converter = Converter(FALSE, TIMEZONE_UTC)
    /\ enex_files = NoEnexFiles
    /\ archive \in {<<element>> : element \in FailElements}
    /\ Started

SpecFail == InitFail /\ [][NextConvert]_vars

\* export_note is over for a note whose target path existed
ExportOverOnExisting ==
    /\ pc \in {"raised", "returned"}
    /\ cur_note # NoNote
    /\ cur_note.title = <<"a">>

\* C30: under the fail policy, when the target path of a note exists on
\* disk, export_note raises FileExistsError and leaves the destination as
\* it was: no attachment file and no note file of the note is written, and
\* written_files and the counters keep their values
C30_FailLeavesDestination ==
    ExportOverOnExisting =>
        /\ raised = "FileExistsError"
        /\ calls = 1
        /\ disk = last.disk_before
        /\ written_files = {}
        /\ sink_stats = NoSinkStats
        /\ converter_stats = NoConverterStats

============================================================================
